---------------------------- MODULE Spec2Model ----------------------------
(***************************************************************************)
(* A model of the resolution / extraction core of swagger-extractor:       *)
(*   lib/swagger/schema-resolver.ts   getSchemaRef, findAllSchemaRefs,     *)
(*                                    extractParams,                       *)
(*                                    extractRequestBodyWithType,          *)
(*                                    extractResponse                      *)
(*   lib/swagger/analyzer.ts          analyzeTags                          *)
(*   lib/swagger/extractor.ts         extractByTags                        *)
(*   lib/swagger/schema-simplifier.ts simplifySchema, resolveSchemaDeep    *)
(*                                                                         *)
(* Representation of JavaScript values                                     *)
(*   - an object with optional members (a schema, a parameter, an          *)
(*     operation, an endpoint descriptor) is a function from the member    *)
(*     names it has to their values; `o.k` being undefined is              *)
(*     k \notin DOMAIN o.  The member `$ref` is written ref.               *)
(*   - an object that the code enumerates or whose key order is observable *)
(*     (content maps, properties, result.schemas, result.endpoints) is the *)
(*     sequence of its <<key, value>> pairs in own-property-key order.     *)
(*   - a `$ref` string is the sequence of its "/"-separated segments, so   *)
(*     "#/definitions/Pet" is <<"#", "definitions", "Pet">>.               *)
(*   - a type label is the sequence of its tokens: "Pet" is <<"Pet">> and  *)
(*     "Pet[]" is <<"Pet", "[]">>.  null and the empty string, which the   *)
(*     code never distinguishes (it only tests truthiness), are both the   *)
(*     empty sequence.                                                     *)
(*   - a content type that is null is the empty string.                    *)
(***************************************************************************)
EXTENDS Integers, Sequences, FiniteSets, TLC

VARIABLES
    operation,        \* Operation Extractor: the OperationObject given
    params,           \*   what extractParams returned
    bodyInfo,         \*   what extractRequestBodyWithType returned
    response,         \*   what extractResponse returned
    called,           \*   the extractor functions that have returned
    swagger,          \* Tag Analyzer: the SwaggerDocument given
    tagsInfo,         \*   the Map<string, TagInfo> (analyzeTags' result)
    allSchemas,       \* the document's schema definitions, by name
    schemaName,       \* Deep Flattener: the root label given
    deep,             \*   what resolveSchemaDeep returned
    selectedTags,     \* Extractor: the tag selection given
    result,           \*   the ExtractionResult being built
    usedSchemas,      \*   the Set of used names, in insertion order
    schemasToProcess, \*   the work stack of the closure loop
    simplified,       \* Shallow Flattener: what simplifySchema returned
    schemaNames,      \* DTO Generator: the names given
    lang,             \*   the target language given
    dto,              \*   what generateDtos returned
    nativeTypes,      \*   what mapType returned, by field
    data,             \* Encoders: the ExtractionResult given
    toon,             \*   what toToon returned
    json,             \*   what toJson returned
    again,            \* what the second call of a function returned, by function
    jsonString,       \* Parser: the text given, as JSON.parse reads it
    parseResult,      \*   what parseSwagger returned
    pc                \* position of the running core function

opVars == <<operation, params, bodyInfo, response, called>>

exVars == <<selectedTags, result, usedSchemas, schemasToProcess>>

outVars ==
    << simplified, schemaNames, lang, dto, nativeTypes, data, toon, json, again,
       jsonString, parseResult >>

notOpVars ==
    <<swagger, tagsInfo, allSchemas, schemaName, deep, pc, exVars, outVars>>

vars ==
    << operation, params, bodyInfo, response, called, swagger, tagsInfo,
       allSchemas, schemaName, deep, selectedTags, result, usedSchemas,
       schemasToProcess, simplified, schemaNames, lang, dto, data, toon, json,
       again, jsonString, parseResult, nativeTypes,
       pc >>

-----------------------------------------------------------------------------
(* JavaScript helpers *)

Has(o, k) == k \in DOMAIN o

Null == <<>>

NoContentType == ""

Last(s) == s[Len(s)]

Range(s) == {s[i] : i \in DOMAIN s}

\* own-property keys of an ordered object, in enumeration order
ObjKeys(obj) == [i \in DOMAIN obj |-> obj[i][1]]

ObjHas(obj, k) == \E i \in DOMAIN obj : obj[i][1] = k

ObjGet(obj, k) == obj[CHOOSE i \in DOMAIN obj : obj[i][1] = k][2]

\* the strings used as object keys that are canonical array indices, with
\* their numeric values: an ordinary object enumerates such keys first, in
\* ascending numeric order, and its other keys after them in insertion order
ArrayIndexOf == ("9" :> 9) @@ ("10" :> 10)

IsArrayIndex(k) == k \in DOMAIN ArrayIndexOf

\* where a new key k goes among the own keys of obj
InsertAt(obj, k) ==
    IF IsArrayIndex(k)
    THEN 1 + Cardinality({i \in DOMAIN obj :
                /\ IsArrayIndex(obj[i][1])
                /\ ArrayIndexOf[obj[i][1]] < ArrayIndexOf[k]})
    ELSE Len(obj) + 1

\* obj[k] = v
ObjSet(obj, k, v) ==
    IF ObjHas(obj, k)
    THEN [i \in DOMAIN obj |-> IF obj[i][1] = k THEN <<k, v>> ELSE obj[i]]
    ELSE SubSeq(obj, 1, InsertAt(obj, k) - 1) \o << <<k, v>> >>
            \o SubSeq(obj, InsertAt(obj, k), Len(obj))

\* a plausible slip: a member already set keeps its value
ObjAssign_KeepEarlier(target, source) ==
    target \o SelectSeq(source, LAMBDA entry : ~ObjHas(target, entry[1]))

\* Object.assign(target, source)
RECURSIVE ObjAssignFrom(_, _, _)
ObjAssignFrom(target, source, i) ==
    IF i > Len(source) THEN target
    ELSE ObjAssignFrom(ObjSet(target, source[i][1], source[i][2]), source, i + 1)

ObjAssign(target, source) == ObjAssignFrom(target, source, 1)

\* all sequences over S of length 0..n
SeqsUpTo(S, n) == UNION {[1..k -> S] : k \in 0..n}

\* sequences without repetition
Distinct(s) == \A i, j \in DOMAIN s : i # j => s[i] # s[j]

-----------------------------------------------------------------------------
(* schema-resolver.ts: getSchemaRef *)

\* `$ref`.split("/").pop()
lastSegment(ref) == Last(ref)

\* getSchemaRef(obj) for an object obj; its callers test obj before the call
getSchemaRef(obj) ==
    IF Has(obj, "ref")
    THEN IF lastSegment(obj.ref) # "" THEN <<lastSegment(obj.ref)>> ELSE Null
    ELSE IF Has(obj, "items") /\ Has(obj.items, "ref")
         THEN IF lastSegment(obj.items.ref) # ""
              THEN <<lastSegment(obj.items.ref), "[]">>
              ELSE Null
         ELSE Null

-----------------------------------------------------------------------------
(* schema-resolver.ts: extractParams *)

\* a plausible slip: the required marker after the location
paramInfo_StarLast(param) ==
    param.name
        \o (IF Has(param, "in") /\ param["in"] # ""
            THEN "(" \o param["in"] \o ")" ELSE "")
        \o (IF Has(param, "required") /\ param.required THEN "*" ELSE "")

\* the body of the loop: the compact string of one parameter
paramInfo(param) ==
    param.name
        \o (IF Has(param, "required") /\ param.required THEN "*" ELSE "")
        \o (IF Has(param, "in") /\ param["in"] # ""
            THEN "(" \o param["in"] \o ")" ELSE "")

extractParams(op) ==
    LET parameters == IF Has(op, "parameters") THEN op.parameters ELSE <<>>
    IN  [i \in DOMAIN parameters |-> paramInfo(parameters[i])]

-----------------------------------------------------------------------------
(* schema-resolver.ts: extractRequestBodyWithType *)

contentTypePriority_Swapped ==
    << "multipart/form-data", "application/json",
       "application/x-www-form-urlencoded", "application/octet-stream", "*/*" >>

contentTypePriority ==
    << "application/json", "multipart/form-data",
       "application/x-www-form-urlencoded", "application/octet-stream", "*/*" >>

\* { schema: content.schema ? getSchemaRef(content.schema) : null, contentType }
RequestBodyInfo(content, contentType) ==
    [ schema      |-> IF Has(content, "schema")
                      THEN getSchemaRef(content.schema) ELSE Null,
      contentType |-> contentType ]

\* the loop over contentTypePriority from index i on, then the fallback
RECURSIVE byPriority(_, _)
byPriority(content, i) ==
    IF i > Len(contentTypePriority)
    THEN IF Len(ObjKeys(content)) > 0
         THEN RequestBodyInfo(content[1][2], ObjKeys(content)[1])
         ELSE [schema |-> Null, contentType |-> NoContentType]
    ELSE IF ObjHas(content, contentTypePriority[i])
         THEN RequestBodyInfo(ObjGet(content, contentTypePriority[i]),
                              contentTypePriority[i])
         ELSE byPriority(content, i + 1)

extractRequestBodyWithType(op) ==
    IF ~(Has(op, "requestBody") /\ Has(op.requestBody, "content"))
    THEN [schema |-> Null, contentType |-> NoContentType]
    ELSE byPriority(op.requestBody.content, 1)

-----------------------------------------------------------------------------
(* schema-resolver.ts: extractResponse *)

successStatuses_Reversed == <<"202", "201", "200">>

successStatuses == <<"200", "201", "202">>

\* response?.content?.["application/json"]?.schema
jsonSchemaOf(responses, status) ==
    IF /\ Has(responses, status)
       /\ Has(responses[status], "content")
       /\ ObjHas(responses[status].content, "application/json")
       /\ Has(ObjGet(responses[status].content, "application/json"), "schema")
    THEN <<ObjGet(responses[status].content, "application/json").schema>>
    ELSE <<>>

RECURSIVE scanStatuses(_, _)
scanStatuses(responses, i) ==
    IF i > Len(successStatuses)
    THEN Null
    ELSE IF jsonSchemaOf(responses, successStatuses[i]) # <<>>
         THEN getSchemaRef(jsonSchemaOf(responses, successStatuses[i])[1])
         ELSE scanStatuses(responses, i + 1)

extractResponse(op) ==
    IF ~Has(op, "responses") THEN Null ELSE scanStatuses(op.responses, 1)

-----------------------------------------------------------------------------
(* Operation Extractor: the operations it is applied to *)

MaxParams == 2

MaxContent == 2

ParamNames == {"id", "q"}

ParamLocations == {"path", "query"}

\* SwaggerParameter: name, and optionally required and in
Parameters ==
    {[name |-> n] : n \in ParamNames}
    \cup {[name |-> n, required |-> r] : n \in ParamNames, r \in BOOLEAN}
    \cup {[name |-> n, in |-> l] : n \in ParamNames, l \in ParamLocations}
    \cup {[name |-> n, required |-> r, in |-> l] :
             n \in ParamNames, r \in BOOLEAN, l \in ParamLocations}

BodyNames == {"Pet", "Owner"}

SchemaRef(n) == [ref |-> <<"#", "components", "schemas", n>>]

\* the schema of one content entry: a reference, an array of references, inline
ContentSchemas ==
    {SchemaRef(n) : n \in BodyNames}
    \cup {[type |-> "array", items |-> SchemaRef(n)] : n \in BodyNames}
    \cup {[type |-> "object"]}

MediaObjects == {[schema |-> s] : s \in ContentSchemas} \cup {<<>>}

ContentTypes == Range(contentTypePriority) \cup {"text/plain", "application/xml"}

\* content maps: up to MaxContent declared content types, in declaration order
ContentMaps ==
    {c \in SeqsUpTo(ContentTypes \X MediaObjects, MaxContent) :
        Distinct(ObjKeys(c))}

ResponseObjects ==
    {[description |-> "ok"]}
    \cup {[content |-> <<>>]}
    \cup {[content |-> << <<"application/json", m>> >>] : m \in MediaObjects}
    \cup {[content |-> << <<"text/plain", [schema |-> SchemaRef("Pet")]>> >>]}

ResponseMaps ==
    UNION {[S -> ResponseObjects] : S \in SUBSET {"200", "201", "202"}}

Operations ==
    {[summary |-> "op"]}
    \cup {[parameters |-> p] : p \in SeqsUpTo(Parameters, MaxParams)}
    \cup {[requestBody |-> [required |-> TRUE]]}
    \cup {[requestBody |-> [content |-> c]] : c \in ContentMaps}
    \cup {[responses |-> r] : r \in ResponseMaps}

\* the variables of the components a specification does not exercise
NoOperation ==
    /\ operation = <<>>
    /\ params = <<>>
    /\ bodyInfo = [schema |-> Null, contentType |-> NoContentType]
    /\ response = Null
    /\ called = {}

NoDocument == swagger = <<>> /\ tagsInfo = <<>>

NoSchemas == allSchemas = <<>>

NoDeep ==
    /\ schemaName = <<>>
    /\ deep = [isNull |-> TRUE, fields |-> <<>>, overflow |-> FALSE]

NoOutputs ==
    /\ simplified = <<>>
    /\ schemaNames = <<>>
    /\ lang = ""
    /\ dto = <<>>
    /\ data = <<>>
    /\ toon = <<>>
    /\ json = <<>>
    /\ again = <<>>
    /\ jsonString = <<>>
    /\ parseResult = <<>>
    /\ nativeTypes = <<>>

NoExtraction ==
    /\ selectedTags = <<>>
    /\ result = [api |-> <<>>, extracted_tags |-> <<>>, endpoints |-> <<>>,
                 schemas |-> <<>>]
    /\ usedSchemas = <<>>
    /\ schemasToProcess = <<>>

InitOperation ==
    /\ operation \in Operations
    /\ params = <<>>
    /\ bodyInfo = [schema |-> Null, contentType |-> NoContentType]
    /\ response = Null
    /\ called = {}
    /\ NoDocument
    /\ NoSchemas
    /\ NoDeep
    /\ NoExtraction
    /\ NoOutputs
    /\ pc = "operation"

ExtractParams ==
    /\ "extractParams" \notin called
    /\ params' = extractParams(operation)
    /\ called' = called \cup {"extractParams"}
    /\ UNCHANGED <<operation, bodyInfo, response>>
    /\ UNCHANGED notOpVars

ExtractRequestBodyWithType ==
    /\ "extractRequestBodyWithType" \notin called
    /\ bodyInfo' = extractRequestBodyWithType(operation)
    /\ called' = called \cup {"extractRequestBodyWithType"}
    /\ UNCHANGED <<operation, params, response>>
    /\ UNCHANGED notOpVars

ExtractResponse ==
    /\ "extractResponse" \notin called
    /\ response' = extractResponse(operation)
    /\ called' = called \cup {"extractResponse"}
    /\ UNCHANGED <<operation, params, bodyInfo>>
    /\ UNCHANGED notOpVars

NextOperation == ExtractParams \/ ExtractRequestBodyWithType \/ ExtractResponse

SpecOperation == InitOperation /\ [][NextOperation]_vars

-----------------------------------------------------------------------------
(* Operation Extractor: properties *)

\* the priority of content types as the specification states it
StatedPriority ==
    << "application/json", "multipart/form-data",
       "application/x-www-form-urlencoded", "application/octet-stream", "*/*" >>

\* the content type the specification selects among the declared ones
StatedChoice(declared) ==
    IF \E i \in DOMAIN StatedPriority : StatedPriority[i] \in Range(declared)
    THEN StatedPriority[CHOOSE i \in DOMAIN StatedPriority :
            /\ StatedPriority[i] \in Range(declared)
            /\ \A j \in 1..(i - 1) : StatedPriority[j] \notin Range(declared)]
    ELSE declared[1]

\* C7: extractRequestBodyWithType picks the declared content type of highest
\* priority (application/json > multipart/form-data >
\* application/x-www-form-urlencoded > application/octet-stream > */*), or the
\* first declared one when none of these is declared, and returns it with the
\* schema reference of that same content entry.
C7_ContentTypePriority ==
    ( /\ "extractRequestBodyWithType" \in called
      /\ Has(operation, "requestBody")
      /\ Has(operation.requestBody, "content")
      /\ Len(operation.requestBody.content) > 0 )
    => LET content == operation.requestBody.content
           chosen  == StatedChoice(ObjKeys(content))
           entry   == ObjGet(content, chosen)
       IN  /\ bodyInfo.contentType = chosen
           /\ bodyInfo.schema = IF Has(entry, "schema")
                                THEN getSchemaRef(entry.schema) ELSE Null

\* C7 witness: a body declared only under multipart/form-data (after a
\* content type outside the priority list) yields multipart/form-data and
\* that entry's schema.
C7_Witness ==
    /\ "extractRequestBodyWithType" \in called
    /\ operation = [requestBody |-> [content |->
          << <<"text/plain", [schema |-> SchemaRef("Owner")]>>,
             <<"multipart/form-data", [schema |-> SchemaRef("Pet")]>> >>]]
    /\ bodyInfo = [schema |-> <<"Pet">>, contentType |-> "multipart/form-data"]

\* the success codes in the order the specification states
StatedStatuses == <<"200", "201", "202">>

Exposes(responses, status) ==
    /\ status \in DOMAIN responses
    /\ "content" \in DOMAIN responses[status]
    /\ \E i \in DOMAIN responses[status].content :
          /\ responses[status].content[i][1] = "application/json"
          /\ "schema" \in DOMAIN responses[status].content[i][2]

\* C8: extractResponse returns the reference of the first of 200, 201, 202
\* that exposes an application/json schema, and null when none does; codes
\* after the first exposing one are not consulted.
C8_FirstSuccessCode ==
    ( "extractResponse" \in called /\ Has(operation, "responses") )
    => LET responses == operation.responses
           exposing  == {i \in DOMAIN StatedStatuses :
                           Exposes(responses, StatedStatuses[i])}
           first     == CHOOSE i \in exposing : \A j \in exposing : i <= j
       IN  IF exposing = {}
           THEN response = Null
           ELSE response = getSchemaRef(
                   ObjGet(responses[StatedStatuses[first]].content,
                          "application/json").schema)

\* C8 witness: 200 exposes no JSON schema, 201 and 202 both do; the answer
\* is the reference under 201.
C8_Witness ==
    /\ "extractResponse" \in called
    /\ Has(operation, "responses")
    /\ DOMAIN operation.responses = {"200", "201", "202"}
    /\ ~Exposes(operation.responses, "200")
    /\ Exposes(operation.responses, "201")
    /\ Exposes(operation.responses, "202")
    /\ operation.responses["201"].content =
          << <<"application/json", [schema |-> SchemaRef("Pet")]>> >>
    /\ operation.responses["202"].content =
          << <<"application/json", [schema |-> SchemaRef("Owner")]>> >>
    /\ response = <<"Pet">>

\* C9: extractParams returns one compact string per parameter, in declaration
\* order: the name, then "*" exactly when the parameter is required, then
\* "(<location>)" exactly when the location is known; { name: "id",
\* required: true, in: "path" } gives "id*(path)".
C9_ParamsCompact ==
    ( "extractParams" \in called /\ Has(operation, "parameters") )
    => /\ Len(params) = Len(operation.parameters)
       /\ \A i \in DOMAIN operation.parameters :
            LET p        == operation.parameters[i]
                required == "required" \in DOMAIN p /\ p.required = TRUE
                known    == "in" \in DOMAIN p
            IN  /\ \E star \in {"", "*"} :
                   \E loc \in {""} \cup {"(" \o l \o ")" : l \in ParamLocations} :
                      /\ params[i] = p.name \o star \o loc
                      /\ (star = "*") <=> required
                      /\ (loc # "") <=> known
                      /\ known => loc = "(" \o p["in"] \o ")"
                /\ p = [name |-> "id", required |-> TRUE, in |-> "path"]
                      => params[i] = "id*(path)"

\* C9 witness: a required path parameter followed by a bare one.
C9_Witness ==
    /\ "extractParams" \in called
    /\ operation = [parameters |->
          << [name |-> "id", required |-> TRUE, in |-> "path"],
             [name |-> "q"] >>]
    /\ params = <<"id*(path)", "q">>

-----------------------------------------------------------------------------
(* analyzer.ts: analyzeTags *)

HTTP_METHODS_WithOptions == <<"get", "post", "put", "patch", "delete", "options">>

HTTP_METHODS == <<"get", "post", "put", "patch", "delete">>

\* method.toUpperCase()
toUpperCase(method) ==
    CASE method = "get"     -> "GET"
      [] method = "post"    -> "POST"
      [] method = "put"     -> "PUT"
      [] method = "patch"   -> "PATCH"
      [] method = "delete"  -> "DELETE"
      [] method = "options" -> "OPTIONS"
      [] method = "head"    -> "HEAD"
      [] method = "trace"   -> "TRACE"

\* a Map<string, V>: its <<key, value>> entries in insertion order
MapHas(map, k) == \E i \in DOMAIN map : map[i][1] = k

MapGet(map, k) == map[CHOOSE i \in DOMAIN map : map[i][1] = k][2]

\* a plausible slip: an entry set again moved to the end, as a delete followed
\* by a set does
MapSet_MoveToEnd(map, k, v) ==
    Append(SelectSeq(map, LAMBDA entry : entry[1] # k), <<k, v>>)

MapSet(map, k, v) ==
    IF MapHas(map, k)
    THEN [i \in DOMAIN map |-> IF map[i][1] = k THEN <<k, v>> ELSE map[i]]
    ELSE Append(map, <<k, v>>)

\* operation.tags?.length ? operation.tags : ["Untagged"]
endpointTags(op) ==
    IF Has(op, "tags") /\ Len(op.tags) > 0 THEN op.tags ELSE <<"Untagged">>

\* the members of o whose names are in keys
Members(o, keys) == [k \in DOMAIN o \cap keys |-> o[k]]

\* the EndpointInfo built for one operation (optional members set when truthy)
EndpointOf(path, upperMethod, op) ==
    LET all == [ path            |-> path,
                 method          |-> upperMethod,
                 summary         |-> IF Has(op, "summary") THEN op.summary ELSE "",
                 params          |-> extractParams(op),
                 body            |-> extractRequestBodyWithType(op).schema,
                 bodyContentType |-> extractRequestBodyWithType(op).contentType,
                 response        |-> extractResponse(op) ]
    IN  Members(all,
            {"path", "method"}
            \cup (IF all.summary # "" THEN {"summary"} ELSE {})
            \cup (IF Len(all.params) > 0 THEN {"params"} ELSE {})
            \cup (IF all.body # Null THEN {"body"} ELSE {})
            \cup (IF all.bodyContentType # NoContentType
                  THEN {"bodyContentType"} ELSE {})
            \cup (IF all.response # Null THEN {"response"} ELSE {}))

\* the body of `for (const tag of endpointTags)` for one tag
addToTag(info, tag, path, method, op) ==
    LET created == IF MapHas(info, tag) THEN info
                   ELSE MapSet(info, tag,
                          [name |-> tag, total |-> 0, methods |-> <<>>,
                           paths |-> <<>>])
        old     == MapGet(created, tag)
        upper   == toUpperCase(method)
        count   == IF Has(old.methods, upper) THEN old.methods[upper] ELSE 0
    IN  MapSet(created, tag,
            [ name    |-> old.name,
              total   |-> old.total + 1,
              methods |-> [m \in DOMAIN old.methods \cup {upper} |->
                             IF m = upper THEN count + 1 ELSE old.methods[m]],
              paths   |-> Append(old.paths, EndpointOf(path, upper, op)) ])

RECURSIVE tagsLoop(_, _, _, _, _, _)
tagsLoop(info, tags, k, path, method, op) ==
    IF k > Len(tags) THEN info
    ELSE tagsLoop(addToTag(info, tags[k], path, method, op),
                  tags, k + 1, path, method, op)

RECURSIVE methodsLoop(_, _, _, _)
methodsLoop(info, path, pathItem, j) ==
    IF j > Len(HTTP_METHODS) THEN info
    ELSE IF ~Has(pathItem, HTTP_METHODS[j])
         THEN methodsLoop(info, path, pathItem, j + 1)
         ELSE methodsLoop(
                tagsLoop(info, endpointTags(pathItem[HTTP_METHODS[j]]), 1,
                         path, HTTP_METHODS[j], pathItem[HTTP_METHODS[j]]),
                path, pathItem, j + 1)

RECURSIVE pathsLoop(_, _, _)
pathsLoop(info, paths, i) ==
    IF i > Len(paths) THEN info
    ELSE pathsLoop(methodsLoop(info, paths[i][1], paths[i][2], 1), paths, i + 1)

analyzeTags(doc) == pathsLoop(<<>>, doc.paths, 1)

-----------------------------------------------------------------------------
(* Tag Analyzer: the documents it is applied to *)

MaxPaths == 2

PathNames == {"/pets", "/pets/{id}", "/store"}

TagLists ==
    { <<>>, <<"pets">>, <<"store">>, <<"pets", "store">>, <<"pets", "pets">>,
      <<"Untagged">> }

\* an operation with every part the Operation Extractor reads
FullOperation ==
    [ tags        |-> <<"store", "pets">>,
      summary     |-> "Add a pet",
      parameters  |-> << [name |-> "id", required |-> TRUE, in |-> "path"] >>,
      requestBody |-> [content |->
                         << <<"multipart/form-data",
                              [schema |-> SchemaRef("Pet")]>> >>],
      responses   |-> [c \in {"201"} |->
                         [content |-> << <<"application/json",
                              [schema |-> [type |-> "array",
                                           items |-> SchemaRef("Pet")]]>> >>]] ]

TaggedOperations ==
    {[operationId |-> "op"]}
    \cup {[tags |-> t] : t \in TagLists}
    \cup {FullOperation}

\* PathItem: the declared methods and their operations
PathItems ==
    {[m \in {"get"} |-> o] : o \in TaggedOperations}
    \cup {[m \in {"post"} |-> o] : o \in {FullOperation, [operationId |-> "op"]}}
    \cup {[m \in {"get", "post"} |-> IF m = "get" THEN o ELSE FullOperation] :
             o \in TaggedOperations}
    \cup {[m \in {"delete", "options"} |-> [tags |-> <<"pets">>]],
          [m \in {"head", "trace"} |-> [tags |-> <<"pets">>]]}

SwaggerPaths ==
    {ps \in SeqsUpTo(PathNames \X PathItems, MaxPaths) : Distinct(ObjKeys(ps))}

InitAnalyze ==
    /\ swagger \in {[paths |-> ps] : ps \in SwaggerPaths}
    /\ tagsInfo = <<>>
    /\ pc = "analyzeTags"
    /\ NoOperation
    /\ NoSchemas
    /\ NoDeep
    /\ NoExtraction
    /\ NoOutputs

notTagVars ==
    << operation, params, bodyInfo, response, called, allSchemas, schemaName,
       deep, exVars, outVars >>

AnalyzeTags ==
    /\ pc = "analyzeTags"
    /\ tagsInfo' = analyzeTags(swagger)
    /\ pc' = "analyzed"
    /\ UNCHANGED swagger
    /\ UNCHANGED notTagVars

NextAnalyze == AnalyzeTags

SpecAnalyze == InitAnalyze /\ [][NextAnalyze]_vars

-----------------------------------------------------------------------------
(* Tag Analyzer: properties *)

\* the retrieval / mutation methods the specification names
StatedMethods == {"get", "post", "put", "patch", "delete"}

\* the declared operations of the document: <<index of the path, method>>
DeclaredOperations ==
    {im \in (DOMAIN swagger.paths) \X
            (StatedMethods \cup {"options", "head", "trace"}) :
        im[2] \in DOMAIN swagger.paths[im[1]][2]}

OperationAt(im) == swagger.paths[im[1]][2][im[2]]

\* the buckets an operation belongs to
BucketsOf(op) ==
    IF "tags" \in DOMAIN op /\ op.tags # <<>>
    THEN {op.tags[k] : k \in DOMAIN op.tags}
    ELSE {"Untagged"}

\* the operations the specification places in bucket t
PlacedIn(t) ==
    {im \in DeclaredOperations :
        im[2] \in StatedMethods /\ t \in BucketsOf(OperationAt(im))}

\* the endpoints of a bucket that come from operation im
EndpointsFrom(bucket, im) ==
    {k \in DOMAIN bucket.paths :
        /\ bucket.paths[k].path = swagger.paths[im[1]][1]
        /\ bucket.paths[k].method = toUpperCase(im[2])}

TagUniverse ==
    UNION {BucketsOf(OperationAt(im)) : im \in DeclaredOperations}
    \cup {tagsInfo[i][1] : i \in DOMAIN tagsInfo}

\* C10: analyzeTags places every declared GET/POST/PUT/PATCH/DELETE operation
\* in the bucket of each of its tags, adding exactly one endpoint and one
\* count per bucket; an operation without tags adds exactly one to
\* "Untagged"; operations under other methods add to no bucket.
C10_OncePerBucket ==
    pc = "analyzed" =>
        \A t \in TagUniverse :
            IF PlacedIn(t) = {}
            THEN ~MapHas(tagsInfo, t)
            ELSE /\ MapHas(tagsInfo, t)
                 /\ MapGet(tagsInfo, t).total = Cardinality(PlacedIn(t))
                 /\ Len(MapGet(tagsInfo, t).paths) = Cardinality(PlacedIn(t))
                 /\ \A im \in PlacedIn(t) :
                       Cardinality(EndpointsFrom(MapGet(tagsInfo, t), im)) = 1

\* no operation of the document lists a tag twice
NoRepeatedTag ==
    \A im \in DeclaredOperations :
        "tags" \in DOMAIN OperationAt(im) => Distinct(OperationAt(im).tags)

\* on documents where no operation repeats a tag the statement of C10 holds
C10_WithoutRepeatedTags == NoRepeatedTag => C10_OncePerBucket

-----------------------------------------------------------------------------
(* schema-simplifier.ts: labels *)

\* the tokens of values.join(sep)
RECURSIVE JoinFrom(_, _, _)
JoinFrom(values, sep, i) ==
    IF i > Len(values) THEN <<>>
    ELSE IF i = Len(values) THEN <<values[i]>>
    ELSE <<values[i], sep>> \o JoinFrom(values, sep, i + 1)

\* a plausible slip: the values joined by "," alone
enumLabel_CommaOnly(propDef) ==
    <<"enum(">> \o JoinFrom(propDef.enum, ",", 1) \o <<")">>

\* `enum(${propDef.enum.join(", ")})`
enumLabel(propDef) == <<"enum(">> \o JoinFrom(propDef.enum, ", ", 1) \o <<")">>

\* propDef.type || "any", suffixed `(${propDef.format})` when there is a format
basicLabel(propDef) ==
    LET propType == IF Has(propDef, "type") /\ propDef.type # ""
                    THEN propDef.type ELSE "any"
    IN  IF Has(propDef, "format") /\ propDef.format # ""
        THEN <<propType, "(", propDef.format, ")">>
        ELSE <<propType>>

\* `${propDef.items.type || "any"}[]`
itemsLabel(items) ==
    << IF Has(items, "type") /\ items.type # "" THEN items.type ELSE "any", "[]" >>

\* label.replace("[]", ""): the first "[]" removed
RECURSIVE removeBrackets(_)
removeBrackets(label) ==
    IF label = <<>> THEN <<>>
    ELSE IF Head(label) = "[]" THEN Tail(label)
    ELSE <<Head(label)>> \o removeBrackets(Tail(label))

\* the string a label stands for
RECURSIVE textOf(_)
textOf(label) == IF label = <<>> THEN "" ELSE Head(label) \o textOf(Tail(label))

-----------------------------------------------------------------------------
(* schema-simplifier.ts: resolveSchemaDeep, resolveObjectDeep *)

\* frames the call stack holds; deeper recursion ends in a RangeError
MaxCallDepth == 8

\* a plausible slip: the visited-path guard forgotten
canExpand_Unguarded(refName, schemas, visited) == refName \in DOMAIN schemas

\* allSchemas[refName] && !visited.has(refName)
canExpand(refName, schemas, visited) ==
    refName \in DOMAIN schemas /\ refName \notin visited

\* a plausible slip: the name of the reference dropped
refNameOrObject_AlwaysObject(ref) == "object"

\* $ref.split("/").pop() || "object"
refNameOrObject(ref) == IF lastSegment(ref) # "" THEN lastSegment(ref) ELSE "object"

\* { type, isArray?, fields: Object.keys(nested).length > 0 ? nested : undefined }
DeepSchemaField(type, isArray, nested) ==
    Members([type |-> type, isArray |-> TRUE, fields |-> nested],
            {"type"} \cup (IF isArray THEN {"isArray"} ELSE {})
                     \cup (IF Len(nested) > 0 THEN {"fields"} ELSE {}))

RECURSIVE resolveObjectDeep(_, _, _, _)
RECURSIVE deepAllOf(_, _, _, _, _)
RECURSIVE deepProperties(_, _, _, _, _)

\* the result of a call: the fields returned, the visited set as the call left
\* it (the set is shared and mutated), and whether the stack was exhausted
resolveObjectDeep(schemaDef, schemas, visited, depth) ==
    IF depth > MaxCallDepth
    THEN [fields |-> <<>>, visited |-> visited, overflow |-> TRUE]
    ELSE IF Has(schemaDef, "allOf")
    THEN deepAllOf(schemaDef.allOf, 1, schemas,
                   [fields |-> <<>>, visited |-> visited, overflow |-> FALSE],
                   depth)
    ELSE deepProperties(
            IF Has(schemaDef, "properties") THEN schemaDef.properties ELSE <<>>,
            1, schemas,
            [fields |-> <<>>, visited |-> visited, overflow |-> FALSE], depth)

\* for (const item of schemaDef.allOf), from item k on
deepAllOf(items, k, schemas, acc, depth) ==
    IF k > Len(items) THEN acc
    ELSE IF Has(items[k], "ref")
    THEN IF /\ lastSegment(items[k].ref) # ""
            /\ canExpand(lastSegment(items[k].ref), schemas, acc.visited)
         THEN LET nested == resolveObjectDeep(
                                schemas[lastSegment(items[k].ref)], schemas,
                                acc.visited \cup {lastSegment(items[k].ref)},
                                depth + 1)
              IN  deepAllOf(items, k + 1, schemas,
                      [ fields   |-> ObjAssign(acc.fields, nested.fields),
                        visited  |-> nested.visited,
                        overflow |-> acc.overflow \/ nested.overflow ], depth)
         ELSE deepAllOf(items, k + 1, schemas, acc, depth)
    ELSE LET nested == resolveObjectDeep(items[k], schemas, acc.visited, depth + 1)
         IN  deepAllOf(items, k + 1, schemas,
                 [ fields   |-> ObjAssign(acc.fields, nested.fields),
                   visited  |-> nested.visited,
                   overflow |-> acc.overflow \/ nested.overflow ], depth)

\* for (const [propName, propDef] of Object.entries(properties)), from k on
deepProperties(properties, k, schemas, acc, depth) ==
    IF k > Len(properties) THEN acc
    ELSE
    LET propName == properties[k][1]
        propDef  == properties[k][2]
        isRef    == Has(propDef, "ref")
        isArrRef == /\ ~isRef
                    /\ Has(propDef, "type") /\ propDef.type = "array"
                    /\ Has(propDef, "items") /\ Has(propDef.items, "ref")
        name     == IF isRef THEN refNameOrObject(propDef.ref)
                    ELSE refNameOrObject(propDef.items.ref)
        label    == IF isRef THEN <<name>> ELSE <<name, "[]">>
    IN
    IF isRef \/ isArrRef
    THEN IF canExpand(name, schemas, acc.visited)
         THEN LET nested == resolveObjectDeep(schemas[name], schemas,
                                acc.visited \cup {name}, depth + 1)
              IN  deepProperties(properties, k + 1, schemas,
                      [ fields   |-> ObjSet(acc.fields, propName,
                                       DeepSchemaField(label, isArrRef,
                                                       nested.fields)),
                        visited  |-> nested.visited,
                        overflow |-> acc.overflow \/ nested.overflow ], depth)
         ELSE deepProperties(properties, k + 1, schemas,
                  [acc EXCEPT !.fields = ObjSet(@, propName,
                        DeepSchemaField(label, isArrRef, <<>>))], depth)
    ELSE IF Has(propDef, "type") /\ propDef.type = "array" /\ Has(propDef, "items")
    THEN deepProperties(properties, k + 1, schemas,
             [acc EXCEPT !.fields = ObjSet(@, propName,
                   DeepSchemaField(itemsLabel(propDef.items), TRUE, <<>>))], depth)
    ELSE IF Has(propDef, "enum")
    THEN deepProperties(properties, k + 1, schemas,
             [acc EXCEPT !.fields = ObjSet(@, propName,
                   DeepSchemaField(enumLabel(propDef), FALSE, <<>>))], depth)
    ELSE deepProperties(properties, k + 1, schemas,
             [acc EXCEPT !.fields = ObjSet(@, propName,
                   DeepSchemaField(basicLabel(propDef), FALSE, <<>>))], depth)

\* resolveSchemaDeep(schemaName, allSchemas) with the default visited = new Set()
resolveSchemaDeep(name, schemas) ==
    LET cleanName == textOf(removeBrackets(name))
    IN  IF cleanName \notin DOMAIN schemas
        THEN [isNull |-> TRUE, fields |-> <<>>, overflow |-> FALSE]
        ELSE LET top == resolveObjectDeep(schemas[cleanName], schemas, {}, 1)
             IN  [isNull |-> FALSE, fields |-> top.fields, overflow |-> top.overflow]

-----------------------------------------------------------------------------
(* Deep Flattener: the documents it is applied to *)

DefNames == {"A", "B", "C"}

\* a name that no definition has
Undefined == "Z"

StringProp == [type |-> "string"]

ArrayOf(items) == [type |-> "array", items |-> items]

\* the definition of a property: a primitive, a reference, an array of references
PropDefs ==
    {StringProp}
    \cup {SchemaRef(n) : n \in DefNames \cup {Undefined}}
    \cup {ArrayOf(SchemaRef(n)) : n \in DefNames}

ObjectSchema(properties) == [type |-> "object", properties |-> properties]

\* the definitions: one property, two sibling properties, a composition
DeepDefinitions ==
    {ObjectSchema(<< <<"x", p>> >>) : p \in PropDefs}
    \cup {ObjectSchema(<< <<"x", SchemaRef(n)>>, <<"y", p>> >>) :
             n \in DefNames, p \in PropDefs}
    \cup {[allOf |-> << SchemaRef(n) >>] : n \in DefNames}
    \cup {[allOf |-> << SchemaRef(n), ObjectSchema(<< <<"z", SchemaRef(m)>> >>) >>] :
             n \in DefNames, m \in DefNames}

InitDeep ==
    /\ allSchemas \in [DefNames -> DeepDefinitions]
    /\ schemaName \in {<<"A">>}
    /\ deep = [isNull |-> TRUE, fields |-> <<>>, overflow |-> FALSE]
    /\ pc = "resolveSchemaDeep"
    /\ NoOperation
    /\ NoDocument
    /\ NoExtraction
    /\ NoOutputs

ResolveSchemaDeep ==
    /\ pc = "resolveSchemaDeep"
    /\ deep' = resolveSchemaDeep(schemaName, allSchemas)
    /\ pc' = "resolved"
    /\ UNCHANGED <<allSchemas, schemaName>>
    /\ UNCHANGED <<opVars, swagger, tagsInfo, exVars, outVars>>

NextDeep == ResolveSchemaDeep

SpecDeep == InitDeep /\ [][NextDeep]_vars

-----------------------------------------------------------------------------
(* Deep Flattener: properties *)

\* the definition name a DeepField's label refers to
NameOf(field) == field.type[1]

Expanded(field) == "fields" \in DOMAIN field

\* some root-to-leaf path below `fields` expands a name of `counted` that is
\* in `seen` or that the path has expanded before
RECURSIVE ExpandsAgain(_, _, _)
ExpandsAgain(fields, seen, counted) ==
    \E i \in DOMAIN fields :
        /\ Expanded(fields[i][2])
        /\ \/ NameOf(fields[i][2]) \in seen \cap counted
           \/ ExpandsAgain(fields[i][2].fields,
                           seen \cup {NameOf(fields[i][2])}, counted)

RootName == textOf(removeBrackets(schemaName))

\* A{ x: B }, B{ x: A }
MutualAB ==
    /\ allSchemas["A"] = ObjectSchema(<< <<"x", SchemaRef("B")>> >>)
    /\ allSchemas["B"] = ObjectSchema(<< <<"x", SchemaRef("A")>> >>)

\* C3: on every schema graph, self- or mutually referential ones included,
\* resolveSchemaDeep returns (the recursion never exhausts the stack), and a
\* type other than the root that occurs again below its own expansion is a
\* leaf; for A{ x: B }, B{ x: A } the tree of A is x: B{ x: A{ x: B } } with
\* the second B a leaf.
C3_CyclesTerminate ==
    pc = "resolved" =>
        /\ ~deep.overflow
        /\ ~ExpandsAgain(deep.fields, {}, DefNames \ {RootName})
        /\ MutualAB =>
              deep.fields =
                << <<"x", [type |-> <<"B">>, fields |->
                     << <<"x", [type |-> <<"A">>, fields |->
                          << <<"x", [type |-> <<"B">>]>> >>]>> >>]>> >>

\* C3 witness: the mutually referencing pair, resolved from A, with B
\* expanded once and its second occurrence a leaf.
C3_Witness ==
    /\ pc = "resolved"
    /\ MutualAB
    /\ schemaName = <<"A">>
    /\ ~deep.overflow
    /\ deep.fields[1][2].type = <<"B">>
    /\ Expanded(deep.fields[1][2])
    /\ deep.fields[1][2].fields[1][2].fields[1][2] = [type |-> <<"B">>]

\* the definition has properties of its own (its expansion is not empty)
HasProperties(name) ==
    /\ name \in DOMAIN allSchemas
    /\ "properties" \in DOMAIN allSchemas[name]
    /\ Len(allSchemas[name].properties) > 0

\* C4: when two sibling properties (here: of a root that declares its
\* properties itself) reference the same known definition (one that has
\* properties, and is not the root), each of the two branches carries nested
\* fields.
C4_SiblingsBothExpanded ==
    pc = "resolved" =>
        \A i, j \in DOMAIN deep.fields :
            ( /\ i < j
              /\ HasProperties(RootName)
              /\ NameOf(deep.fields[i][2]) = NameOf(deep.fields[j][2])
              /\ NameOf(deep.fields[i][2]) # RootName
              /\ HasProperties(NameOf(deep.fields[i][2])) )
            => Expanded(deep.fields[i][2]) /\ Expanded(deep.fields[j][2])

\* C5 as stated: no name, the root included, is expanded again along a path:
\* a property that refers back to the root is a leaf.
C5_OncePerPathRootIncluded ==
    pc = "resolved" => ~ExpandsAgain(deep.fields, {RootName}, DefNames)

\* C5 as amended: no DeepField name is expanded twice along a path, where the
\* root's own top-level mapping does not count as an expansion: a property
\* referring back to the root is expanded once, and is a leaf below that.
C5_OncePerPath ==
    pc = "resolved" =>
        /\ ~deep.overflow
        /\ ~ExpandsAgain(deep.fields, {}, DefNames)

\* C5 witness: the self-referential A{ x: A } resolved from A: the property
\* is expanded once and the A below it is a leaf.
C5_Witness ==
    /\ pc = "resolved"
    /\ schemaName = <<"A">>
    /\ allSchemas["A"] = ObjectSchema(<< <<"x", SchemaRef("A")>> >>)
    /\ deep.fields =
          << <<"x", [type |-> <<"A">>,
                     fields |-> << <<"x", [type |-> <<"A">>]>> >>]>> >>

-----------------------------------------------------------------------------
(* schema-resolver.ts: findAllSchemaRefs, getSchemas *)

\* a Set<string>: its elements in insertion order
SetAdd(set, x) == IF x \in Range(set) THEN set ELSE Append(set, x)

\* the segments of the `$ref` strings of the documents that end with "#"
EndsWithHash(segment) == segment \in {"#", "models.json#"}

\* $ref.includes("#/components/schemas/")
includesComponentsSchemas(ref) ==
    \E i \in 1..(Len(ref) - 3) :
        /\ EndsWithHash(ref[i])
        /\ ref[i + 1] = "components"
        /\ ref[i + 2] = "schemas"

\* $ref.includes("#/definitions/")
includesDefinitions(ref) ==
    \E i \in 1..(Len(ref) - 2) : EndsWithHash(ref[i]) /\ ref[i + 1] = "definitions"

\* a plausible slip: a reference recognised only in its OpenAPI 3 form
recognised_OnlyComponents(ref) == includesComponentsSchemas(ref)

\* the test `$ref` has to pass for its name to be collected
recognised(ref) == includesComponentsSchemas(ref) \/ includesDefinitions(ref)

RECURSIVE findAllSchemaRefs(_, _)
RECURSIVE findInArray(_, _, _)
RECURSIVE findInProperties(_, _, _)

\* findAllSchemaRefs(obj, refs) for a schema object; its members are visited
\* in the order the SchemaObject interface declares them; scalar members
\* (type, format, the values of enum) add nothing
findAllSchemaRefs(obj, refs) ==
    LET own   == IF /\ Has(obj, "ref")
                    /\ recognised(obj.ref)
                    /\ lastSegment(obj.ref) # ""
                 THEN SetAdd(refs, lastSegment(obj.ref))
                 ELSE refs
        items == IF Has(obj, "items") THEN findAllSchemaRefs(obj.items, own)
                 ELSE own
        props == IF Has(obj, "properties")
                 THEN findInProperties(obj.properties, 1, items)
                 ELSE items
        all   == IF Has(obj, "allOf") THEN findInArray(obj.allOf, 1, props)
                 ELSE props
        one   == IF Has(obj, "oneOf") THEN findInArray(obj.oneOf, 1, all)
                 ELSE all
    IN  IF Has(obj, "anyOf") THEN findInArray(obj.anyOf, 1, one) ELSE one

\* for (const item of obj), from item k on
findInArray(array, k, refs) ==
    IF k > Len(array) THEN refs
    ELSE findInArray(array, k + 1, findAllSchemaRefs(array[k], refs))

\* for (const value of Object.values(record)) of a properties record
findInProperties(properties, k, refs) ==
    IF k > Len(properties) THEN refs
    ELSE findInProperties(properties, k + 1,
                          findAllSchemaRefs(properties[k][2], refs))

\* swagger.components?.schemas, else swagger.definitions, else {}
getSchemas(doc) ==
    IF Has(doc, "components") /\ Has(doc.components, "schemas")
    THEN doc.components.schemas
    ELSE IF Has(doc, "definitions") THEN doc.definitions
    ELSE <<>>

-----------------------------------------------------------------------------
(* schema-simplifier.ts: simplifySchema *)

\* `${refName}[]`
arrayOfLabel(refName) == IF refName = "" THEN <<"[]">> ELSE <<refName, "[]">>

\* the label of one property
propertyLabel(propDef) ==
    IF Has(propDef, "ref") THEN <<refNameOrObject(propDef.ref)>>
    ELSE IF Has(propDef, "type") /\ propDef.type = "array"
    THEN IF Has(propDef, "items")
         THEN IF Has(propDef.items, "ref")
              THEN arrayOfLabel(lastSegment(propDef.items.ref))
              ELSE itemsLabel(propDef.items)
         ELSE <<"array">>
    ELSE IF Has(propDef, "enum") THEN enumLabel(propDef)
    ELSE basicLabel(propDef)

\* for (const [propName, propDef] of Object.entries(properties)), from k on
RECURSIVE simplifyProperties(_, _, _)
simplifyProperties(properties, k, acc) ==
    IF k > Len(properties) THEN acc
    ELSE simplifyProperties(properties, k + 1,
            ObjSet(acc, properties[k][1], propertyLabel(properties[k][2])))

RECURSIVE simplifySchemaWith(_, _, _)
RECURSIVE simplifyAllOf(_, _, _, _)

\* simplifySchema(schemaDef, allSchemas, processed): the mapping returned and
\* the processed set as the call left it (the set is shared and mutated)
simplifySchemaWith(schemaDef, schemas, processed) ==
    IF Has(schemaDef, "allOf")
    THEN simplifyAllOf(schemaDef.allOf, 1, schemas,
                       [result |-> <<>>, processed |-> processed])
    ELSE [ result    |-> simplifyProperties(
                            IF Has(schemaDef, "properties")
                            THEN schemaDef.properties ELSE <<>>, 1, <<>>),
           processed |-> processed ]

\* for (const item of schemaDef.allOf), from item k on
simplifyAllOf(items, k, schemas, acc) ==
    IF k > Len(items) THEN acc
    ELSE IF Has(items[k], "ref")
    THEN IF /\ lastSegment(items[k].ref) # ""
            /\ lastSegment(items[k].ref) \in DOMAIN schemas
            /\ lastSegment(items[k].ref) \notin acc.processed
         THEN LET nested == simplifySchemaWith(
                                schemas[lastSegment(items[k].ref)], schemas,
                                acc.processed \cup {lastSegment(items[k].ref)})
              IN  simplifyAllOf(items, k + 1, schemas,
                      [ result    |-> ObjAssign(acc.result, nested.result),
                        processed |-> nested.processed ])
         ELSE simplifyAllOf(items, k + 1, schemas, acc)
    ELSE LET nested == simplifySchemaWith(items[k], schemas, acc.processed)
         IN  simplifyAllOf(items, k + 1, schemas,
                 [ result    |-> ObjAssign(acc.result, nested.result),
                   processed |-> nested.processed ])

\* simplifySchema(schemaDef, allSchemas) with the default processed = new Set()
simplifySchema(schemaDef, schemas) ==
    simplifySchemaWith(schemaDef, schemas, {}).result

-----------------------------------------------------------------------------
(* extractor.ts: extractByTags *)

\* the UTF-16 code units of the names the documents use
codeUnits ==
    ("A" :> <<65>>) @@ ("B" :> <<66>>) @@ ("C" :> <<67>>) @@ ("Z" :> <<90>>)
    @@ ("9" :> <<57>>) @@ ("10" :> <<49, 48>>)

\* the default comparison of Array.prototype.sort: by UTF-16 code units
RECURSIVE unitsBefore(_, _)
unitsBefore(a, b) ==
    IF a = <<>> THEN b # <<>>
    ELSE IF b = <<>> THEN FALSE
    ELSE IF Head(a) # Head(b) THEN Head(a) < Head(b)
    ELSE unitsBefore(Tail(a), Tail(b))

RECURSIVE insertSorted(_, _)
insertSorted(sorted, x) ==
    IF sorted = <<>> THEN <<x>>
    ELSE IF unitsBefore(codeUnits[x], codeUnits[Head(sorted)])
         THEN <<x>> \o sorted
         ELSE <<Head(sorted)>> \o insertSorted(Tail(sorted), x)

RECURSIVE sortFrom(_, _, _)
sortFrom(array, k, sorted) ==
    IF k > Len(array) THEN sorted
    ELSE sortFrom(array, k + 1, insertSorted(sorted, array[k]))

\* array.sort()
sort(array) == sortFrom(array, 1, <<>>)

\* `${info.title || "API"} v${info.version || "1.0"}`
apiLabel(info) ==
    << IF info.title # "" THEN info.title ELSE "API", " v",
       IF info.version # "" THEN info.version ELSE "1.0" >>

\* the object literal built for one endpoint (an undefined member is absent)
endpointData(endpoint) ==
    Members(endpoint, {"path", "method", "summary", "params", "body", "response"})

\* usedSchemas after the two `usedSchemas.add(...replace("[]", ""))` of an endpoint
trackUsed(used, endpoint) ==
    LET body == IF Has(endpoint, "body") /\ endpoint.body # Null
                THEN SetAdd(used, textOf(removeBrackets(endpoint.body)))
                ELSE used
    IN  IF Has(endpoint, "response") /\ endpoint.response # Null
        THEN SetAdd(body, textOf(removeBrackets(endpoint.response)))
        ELSE body

\* for (const endpoint of tagData.paths), from endpoint k on
RECURSIVE endpointsLoop(_, _, _)
endpointsLoop(paths, k, acc) ==
    IF k > Len(paths) THEN acc
    ELSE endpointsLoop(paths, k + 1,
            [ list |-> Append(acc.list, endpointData(paths[k])),
              used |-> trackUsed(acc.used, paths[k]) ])

\* for (const tag of selectedTags), from tag k on
RECURSIVE selectedLoop(_, _, _, _)
selectedLoop(tags, k, info, acc) ==
    IF k > Len(tags) THEN acc
    ELSE IF ~MapHas(info, tags[k]) THEN selectedLoop(tags, k + 1, info, acc)
    ELSE LET copied == endpointsLoop(MapGet(info, tags[k]).paths, 1,
                                     [list |-> <<>>, used |-> acc.used])
         IN  selectedLoop(tags, k + 1, info,
                 [ endpoints |-> ObjSet(acc.endpoints, tags[k], copied.list),
                   used      |-> copied.used ])

\* a plausible slip: every reference found pushed, used already or not
RECURSIVE refsLoop_PushAlways(_, _, _)
refsLoop_PushAlways(nestedRefs, k, acc) ==
    IF k > Len(nestedRefs) THEN acc
    ELSE refsLoop_PushAlways(nestedRefs, k + 1,
             [ used  |-> SetAdd(acc.used, nestedRefs[k]),
               stack |-> Append(acc.stack, nestedRefs[k]) ])

\* for (const ref of nestedRefs), from ref k on
RECURSIVE refsLoop(_, _, _)
refsLoop(nestedRefs, k, acc) ==
    IF k > Len(nestedRefs) THEN acc
    ELSE IF nestedRefs[k] \in Range(acc.used)
         THEN refsLoop(nestedRefs, k + 1, acc)
         ELSE refsLoop(nestedRefs, k + 1,
                 [ used  |-> Append(acc.used, nestedRefs[k]),
                   stack |-> Append(acc.stack, nestedRefs[k]) ])

\* for (const schemaName of Array.from(usedSchemas).sort()), from name k on
RECURSIVE simplifyLoop(_, _, _, _)
simplifyLoop(names, k, schemas, acc) ==
    IF k > Len(names) THEN acc
    ELSE IF names[k] \notin DOMAIN schemas
         THEN simplifyLoop(names, k + 1, schemas, acc)
         ELSE simplifyLoop(names, k + 1, schemas,
                 ObjSet(acc, names[k], simplifySchema(schemas[names[k]], schemas)))

-----------------------------------------------------------------------------
(* Extractor: the documents and selections it is applied to *)

\* "#/definitions/<n>", the Swagger 2 form of a reference
DefinitionsRef(n) == [ref |-> <<"#", "definitions", n>>]

\* "models.json#/<n>", a reference into another file
ExternalRef(n) == [ref |-> <<"models.json#", n>>]

JsonContent(schema) == << <<"application/json", [schema |-> schema]>> >>

\* an operation under tags answering 200 with a schema, body being optional
OperationWith(tags, answer) ==
    [ tags      |-> tags,
      responses |-> [c \in {"200"} |-> [content |-> JsonContent(answer)]] ]

OperationWithBody(tags, body, answer) ==
    [ tags        |-> tags,
      requestBody |-> [content |-> JsonContent(body)],
      responses   |-> [c \in {"200"} |-> [content |-> JsonContent(answer)]] ]

GetAt(path, op) == <<path, [m \in {"get"} |-> op]>>

PostAt(path, op) == <<path, [m \in {"post"} |-> op]>>

\* definitions of an OpenAPI 3 document: references in every form, to defined
\* and undefined names, directly, in arrays, in compositions, in alternatives
ClosureDefinitions ==
    {ObjectSchema(<< <<"x", p>> >>) :
        p \in {StringProp}
              \cup {SchemaRef(n) : n \in DefNames \cup {Undefined}}
              \cup {ExternalRef(n) : n \in {"B", "C"}}
              \cup {ArrayOf(SchemaRef(n)) : n \in {"B", "C"}}}
    \cup {[allOf |-> << SchemaRef("B"), ObjectSchema(<< <<"z", SchemaRef("C")>> >>) >>],
          [allOf |-> << SchemaRef("C"), ObjectSchema(<< <<"z", SchemaRef("A")>> >>) >>],
          ObjectSchema(<< <<"x", StringProp>>,
                          <<"y", [oneOf |-> <<SchemaRef("C"), StringProp>>]>> >>),
          ObjectSchema(<< <<"x", SchemaRef("B")>>, <<"y", SchemaRef("C")>> >>)}

ClosureSchemas ==
    {s \in [DefNames -> ClosureDefinitions] :
        s["C"] \in { ObjectSchema(<< <<"x", StringProp>> >>),
                     ObjectSchema(<< <<"x", SchemaRef("A")>> >>),
                     ObjectSchema(<< <<"x", ExternalRef("B")>> >>) }}

ClosurePaths ==
    { << GetAt("/pets", OperationWith(<<"pets">>, SchemaRef("A"))) >>,
      << PostAt("/pets", OperationWithBody(<<"pets">>, ArrayOf(SchemaRef("B")),
                                           SchemaRef(Undefined))) >>,
      << GetAt("/pets", OperationWith(<<"pets">>, SchemaRef("A"))),
         GetAt("/store", OperationWithBody(<<"store">>, SchemaRef("C"),
                                           ArrayOf(SchemaRef("B")))) >>,
      << GetAt("/pets", OperationWith(<<"pets", "store">>, ExternalRef("A"))) >>,
      << GetAt("/pets", [operationId |-> "op"]) >> }

ClosureDocuments ==
    {[ info       |-> [title |-> "Petstore", version |-> "1.0.0"],
       paths      |-> ps,
       components |-> [schemas |-> s] ] : ps \in ClosurePaths, s \in ClosureSchemas}

\* definitions of a Swagger 2 document whose names include digit strings
OrderNames == {"A", "9", "10"}

OrderDefinitions ==
    {ObjectSchema(<< <<"x", StringProp>> >>)}
    \cup {ObjectSchema(<< <<"x", DefinitionsRef(n)>> >>) : n \in OrderNames}
    \cup {ObjectSchema(<< <<"x", DefinitionsRef("10")>>,
                          <<"y", DefinitionsRef("9")>> >>)}

OrderPaths ==
    { << GetAt("/pets", OperationWith(<<"pets">>, DefinitionsRef("A"))) >>,
      << GetAt("/pets", OperationWith(<<"pets">>, DefinitionsRef("10"))) >>,
      << PostAt("/pets", OperationWithBody(<<"pets">>, DefinitionsRef("9"),
                                           DefinitionsRef("10"))),
         GetAt("/store", OperationWith(<<"store">>, DefinitionsRef("A"))) >> }

OrderDocuments ==
    {[ info        |-> i,
       paths       |-> ps,
       definitions |-> s ] :
         i \in {[title |-> "Petstore", version |-> "1.0.0"],
                [title |-> "", version |-> ""]},
         ps \in OrderPaths, s \in [OrderNames -> OrderDefinitions]}

\* a document that declares no schema at all
BareDocument ==
    [ info  |-> [title |-> "Petstore", version |-> ""],
      paths |-> << GetAt("/pets", OperationWith(<<"pets">>, SchemaRef("A"))) >> ]

ExtractDocuments == ClosureDocuments \cup OrderDocuments \cup {BareDocument}

TagSelections ==
    { <<>>, <<"pets">>, <<"store">>, <<"pets", "store">>, <<"store", "pets">>,
      <<"pets", "pets">>, <<"ghost">> }

InitExtract ==
    /\ swagger \in ExtractDocuments
    /\ tagsInfo = <<>>
    /\ pc = "analyzeTags"
    /\ NoOperation
    /\ NoSchemas
    /\ NoDeep
    /\ NoExtraction
    /\ NoOutputs

\* extractByTags, from its entry to the closure loop
ExtractEndpoints ==
    /\ pc = "analyzed"
    /\ \E selected \in TagSelections :
        LET copied == selectedLoop(selected, 1, tagsInfo,
                                   [endpoints |-> <<>>, used |-> <<>>])
        IN  /\ selectedTags' = selected
            /\ allSchemas' = getSchemas(swagger)
            /\ result' = [ api            |-> apiLabel(swagger.info),
                           extracted_tags |-> selected,
                           endpoints      |-> copied.endpoints,
                           schemas        |-> <<>> ]
            /\ usedSchemas' = copied.used
            /\ schemasToProcess' = copied.used
    /\ pc' = "closure"
    /\ UNCHANGED <<opVars, swagger, tagsInfo, schemaName, deep, outVars>>

\* one iteration of `while (schemasToProcess.length > 0)`
ProcessSchema ==
    /\ pc = "closure"
    /\ Len(schemasToProcess) > 0
    /\ LET popped     == Last(schemasToProcess)
           rest       == SubSeq(schemasToProcess, 1, Len(schemasToProcess) - 1)
           nestedRefs == IF popped \in DOMAIN allSchemas
                         THEN findAllSchemaRefs(allSchemas[popped], <<>>)
                         ELSE <<>>
           after      == refsLoop(nestedRefs, 1,
                                  [used |-> usedSchemas, stack |-> rest])
       IN  /\ usedSchemas' = after.used
           /\ schemasToProcess' = after.stack
    /\ UNCHANGED <<opVars, swagger, tagsInfo, allSchemas, schemaName, deep, outVars>>
    /\ UNCHANGED <<selectedTags, result, pc>>

\* extractByTags, from the end of the closure loop to its return
SimplifySchemas ==
    /\ pc = "closure"
    /\ Len(schemasToProcess) = 0
    /\ result' = [result EXCEPT
                    !.schemas = simplifyLoop(sort(usedSchemas), 1, allSchemas, <<>>)]
    /\ pc' = "returned"
    /\ UNCHANGED <<opVars, swagger, tagsInfo, allSchemas, schemaName, deep, outVars>>
    /\ UNCHANGED <<selectedTags, usedSchemas, schemasToProcess>>

NextExtract == AnalyzeTags \/ ExtractEndpoints \/ ProcessSchema \/ SimplifySchemas

SpecExtract == InitExtract /\ [][NextExtract]_vars

-----------------------------------------------------------------------------
(* Extractor: properties *)

\* the names referred to anywhere inside a schema: the last segment of every
\* `$ref` it contains, at any depth
RECURSIVE ReferencedNames(_)
ReferencedNames(schema) ==
    LET In(member) == IF Has(schema, member)
                      THEN UNION {ReferencedNames(schema[member][i]) :
                                    i \in DOMAIN schema[member]}
                      ELSE {}
    IN  (IF Has(schema, "ref") /\ Last(schema.ref) # ""
         THEN {Last(schema.ref)} ELSE {})
        \cup (IF Has(schema, "items") THEN ReferencedNames(schema.items) ELSE {})
        \cup (IF Has(schema, "properties")
              THEN UNION {ReferencedNames(schema.properties[i][2]) :
                            i \in DOMAIN schema.properties}
              ELSE {})
        \cup In("allOf") \cup In("oneOf") \cup In("anyOf")

\* the endpoint descriptors the tag index holds for the selected tags
SelectedEndpoints ==
    UNION {Range(MapGet(tagsInfo, t).paths) :
             t \in {u \in Range(selectedTags) : MapHas(tagsInfo, u)}}

\* the names their body and response labels refer to
SeedNames ==
    {Head(e.body) : e \in {d \in SelectedEndpoints : Has(d, "body")}}
    \cup {Head(e.response) : e \in {d \in SelectedEndpoints : Has(d, "response")}}

\* the names reachable from S by following references through definitions
RECURSIVE ReachableFrom(_)
ReachableFrom(S) ==
    LET next == S \cup UNION {ReferencedNames(allSchemas[n]) :
                                n \in S \cap DOMAIN allSchemas}
    IN  IF next = S THEN S ELSE ReachableFrom(next)

SchemaKeys == ObjKeys(result.schemas)

\* C1: when extractByTags has returned, the keys of its schema mapping are
\* exactly the schema names of the document reachable, by following
\* references, from the body and response references of the endpoints of the
\* selected tags: every reachable name is a key, no key is unreachable.
C1_ExactlyReachable ==
    pc = "returned" =>
        Range(SchemaKeys) = ReachableFrom(SeedNames) \cap DOMAIN allSchemas

\* every reference inside a definition is written "#/components/schemas/<n>"
\* or "#/definitions/<n>"
RECURSIVE LocalRefsOnly(_)
LocalRefsOnly(schema) ==
    LET In(member) == Has(schema, member) =>
                        \A i \in DOMAIN schema[member] :
                            LocalRefsOnly(schema[member][i])
    IN  /\ Has(schema, "ref") =>
              \/ SubSeq(schema.ref, 1, Len(schema.ref) - 1)
                    = <<"#", "components", "schemas">>
              \/ SubSeq(schema.ref, 1, Len(schema.ref) - 1) = <<"#", "definitions">>
        /\ Has(schema, "items") => LocalRefsOnly(schema.items)
        /\ Has(schema, "properties") =>
              \A i \in DOMAIN schema.properties :
                  LocalRefsOnly(schema.properties[i][2])
        /\ In("allOf") /\ In("oneOf") /\ In("anyOf")

\* C1 on the documents whose definitions refer to each other in the two local
\* forms only: there the keys are exactly the reachable schema names
C1_ExactlyReachableLocalRefs ==
    (pc = "returned" /\ \A n \in DOMAIN allSchemas : LocalRefsOnly(allSchemas[n]))
        => Range(SchemaKeys) = ReachableFrom(SeedNames) \cap DOMAIN allSchemas

\* C2: when extractByTags has returned, the keys of its schema mapping are
\* enumerated in lexicographic (code unit) order, whatever the order in which
\* the closure discovered the names.
C2_KeysLexicographic ==
    pc = "returned" =>
        \A i, j \in DOMAIN SchemaKeys :
            i < j => unitsBefore(codeUnits[SchemaKeys[i]], codeUnits[SchemaKeys[j]])

\* C2 on the results in which at most one key is a string of digits
C2_KeysLexicographicNoIndexKeys ==
    (/\ pc = "returned"
     /\ Cardinality({k \in Range(SchemaKeys) : IsArrayIndex(k)}) <= 1)
        => \A i, j \in DOMAIN SchemaKeys :
             i < j => unitsBefore(codeUnits[SchemaKeys[i]], codeUnits[SchemaKeys[j]])

\* C6: when extractByTags has returned, for each selected tag the index
\* knows, the endpoint list of the result is the tag's list of endpoint
\* descriptors: same endpoints, same order, every member of each descriptor
\* (request-body content type included) unchanged.
C6_EndpointsVerbatim ==
    pc = "returned" =>
        \A t \in Range(selectedTags) :
            MapHas(tagsInfo, t) =>
                /\ ObjHas(result.endpoints, t)
                /\ ObjGet(result.endpoints, t) = MapGet(tagsInfo, t).paths

\* a descriptor without its request-body content type
WithoutContentType(e) == Members(e, DOMAIN e \ {"bodyContentType"})

\* C6 for every member but the request-body content type
C6_EndpointsVerbatimButContentType ==
    pc = "returned" =>
        \A t \in Range(selectedTags) :
            MapHas(tagsInfo, t) =>
                /\ ObjHas(result.endpoints, t)
                /\ ObjGet(result.endpoints, t)
                     = [i \in DOMAIN MapGet(tagsInfo, t).paths |->
                          WithoutContentType(MapGet(tagsInfo, t).paths[i])]

-----------------------------------------------------------------------------
(* Shallow Flattener: the definitions it is applied to *)

\* an object without members: {}
EmptyObject == <<>>

\* the definition of a property, in every shape simplifySchema tells apart
FlatProps ==
    { StringProp,
      [type |-> "integer", format |-> "int64"],
      [type |-> "string", format |-> "date-time"],
      [format |-> "uuid"],
      EmptyObject,
      SchemaRef("B"),
      SchemaRef(Undefined),
      [ref |-> <<"#", "definitions", "B">>, type |-> "object"],
      ArrayOf(SchemaRef("B")),
      ArrayOf(StringProp),
      ArrayOf(EmptyObject),
      [type |-> "array"],
      [type |-> "string", enum |-> <<"a", "b">>],
      [enum |-> <<"a">>],
      [type |-> "string", enum |-> <<"a", "b", "c">>],
      [allOf |-> <<SchemaRef("B")>>] }

\* definitions that are not compositions: no, one or two properties
FlatDefinitions ==
    {[type |-> "object"], ObjectSchema(<<>>)}
    \cup {ObjectSchema(<< <<"x", p>> >>) : p \in FlatProps}
    \cup {ObjectSchema(<< <<"x", p>>, <<"y", q>> >>) : p \in FlatProps, q \in FlatProps}

InitSimplify ==
    /\ allSchemas \in {[n \in {"A", "B"} |->
                          IF n = "A" THEN d ELSE ObjectSchema(<< <<"x", StringProp>> >>)] :
                       d \in FlatDefinitions}
    /\ schemaName = <<"A">>
    /\ pc = "simplifySchema"
    /\ NoOperation
    /\ NoDocument
    /\ deep = [isNull |-> TRUE, fields |-> <<>>, overflow |-> FALSE]
    /\ NoExtraction
    /\ NoOutputs

\* simplifySchema(allSchemas[schemaName], allSchemas)
SimplifySchema ==
    /\ pc = "simplifySchema"
    /\ simplified' = simplifySchema(allSchemas[textOf(schemaName)], allSchemas)
    /\ pc' = "simplified"
    /\ UNCHANGED <<opVars, swagger, tagsInfo, allSchemas, schemaName, deep, exVars>>
    /\ UNCHANGED <<nativeTypes, jsonString, parseResult, schemaNames, lang, dto, data, toon, json, again>>

NextSimplify == SimplifySchema

SpecSimplify == InitSimplify /\ [][NextSimplify]_vars

-----------------------------------------------------------------------------
(* Shallow Flattener: properties *)

\* the definition given to simplifySchema and its declared properties
GivenDefinition == allSchemas[textOf(schemaName)]

DeclaredProperties ==
    IF Has(GivenDefinition, "properties") THEN GivenDefinition.properties ELSE <<>>

\* enum(v1, ..., vn), the values joined by ", "
StatedEnum(values) ==
    CASE Len(values) = 1 -> <<"enum(", values[1], ")">>
      [] Len(values) = 2 -> <<"enum(", values[1], ", ", values[2], ")">>
      [] Len(values) = 3 ->
            <<"enum(", values[1], ", ", values[2], ", ", values[3], ")">>

IsArrayProp(p) == Has(p, "type") /\ p.type = "array" /\ Has(p, "items")

\* the label the specification gives a property, in the cases it names
StatedLabel(p) ==
    CASE Has(p, "ref") -> <<Last(p.ref)>>
      [] ~Has(p, "ref") /\ IsArrayProp(p) /\ Has(p.items, "ref") ->
            <<Last(p.items.ref), "[]">>
      [] ~Has(p, "ref") /\ IsArrayProp(p) /\ ~Has(p.items, "ref")
            /\ Has(p.items, "type") -> <<p.items.type, "[]">>
      [] ~Has(p, "ref") /\ ~IsArrayProp(p) /\ Has(p, "enum")
            /\ ~(Has(p, "type") /\ p.type = "array") -> StatedEnum(p.enum)
      [] ~Has(p, "ref") /\ ~Has(p, "enum") /\ Has(p, "type") /\ p.type # "array"
            /\ Has(p, "format") -> <<p.type, "(", p.format, ")">>
      [] ~Has(p, "ref") /\ ~Has(p, "enum") /\ Has(p, "type") /\ p.type # "array"
            /\ ~Has(p, "format") -> <<p.type>>
      [] OTHER -> Null

\* the words a label may start with when it is not a definition name
TypeWords == {"string", "integer", "number", "boolean", "object", "array", "any"}

\* the TypeLabel vocabulary: <prim>, <prim>(<format>), <Name>, <Name>[], <prim>[],
\* enum(v1, v2, ...), object, any
InVocabulary(label) ==
    \/ Len(label) = 1 /\ label[1] \in TypeWords \cup DefNames \cup {Undefined}
    \/ Len(label) = 2 /\ label[1] \in TypeWords \cup DefNames \cup {Undefined}
                      /\ label[2] = "[]"
    \/ Len(label) = 4 /\ label[1] \in TypeWords /\ label[2] = "("
                      /\ label[3] # "" /\ label[4] = ")"
    \/ /\ Len(label) >= 3
       /\ label[1] = "enum(" /\ Last(label) = ")"
       /\ \A i \in 2..(Len(label) - 1) : (i % 2 = 1) => label[i] = ", "

-----------------------------------------------------------------------------
(* dto-generator.ts: mapType, mapBasicType, mapFormattedType, formatFieldName *)
(* A text is the sequence of its lines and a line the sequence of its      *)
(* tokens; a type is a sequence of tokens, as a label is.                  *)

DTO_LANGUAGES == <<"typescript", "csharp", "dart", "java", "python", "go", "kotlin">>

typeMap ==
    [ string  |-> [typescript |-> "string", csharp |-> "string", dart |-> "String",
                   java |-> "String", python |-> "str", go |-> "string",
                   kotlin |-> "String"],
      number  |-> [typescript |-> "number", csharp |-> "double", dart |-> "double",
                   java |-> "double", python |-> "float", go |-> "float64",
                   kotlin |-> "Double"],
      integer |-> [typescript |-> "number", csharp |-> "int", dart |-> "int",
                   java |-> "int", python |-> "int", go |-> "int",
                   kotlin |-> "Int"],
      boolean |-> [typescript |-> "boolean", csharp |-> "bool", dart |-> "bool",
                   java |-> "boolean", python |-> "bool", go |-> "bool",
                   kotlin |-> "Boolean"],
      object  |-> [typescript |-> "Record<string, unknown>",
                   csharp |-> "Dictionary<string, object>",
                   dart |-> "Map<String, dynamic>", java |-> "Map<String, Object>",
                   python |-> "dict[str, Any]", go |-> "map[string]interface{}",
                   kotlin |-> "Map<String, Any>"],
      any     |-> [typescript |-> "unknown", csharp |-> "object", dart |-> "dynamic",
                   java |-> "Object", python |-> "Any", go |-> "interface{}",
                   kotlin |-> "Any"] ]

\* typeMap[type]?.[lang] ?? type
mapBasicType(type, language) ==
    IF type \in DOMAIN typeMap THEN typeMap[type][language] ELSE type

dateMap ==
    [typescript |-> "string", csharp |-> "DateTime", dart |-> "DateTime",
     java |-> "LocalDateTime", python |-> "datetime", go |-> "time.Time",
     kotlin |-> "LocalDateTime"]

uuidMap ==
    [typescript |-> "string", csharp |-> "Guid", dart |-> "String", java |-> "UUID",
     python |-> "UUID", go |-> "string", kotlin |-> "UUID"]

int64Map ==
    [typescript |-> "number", csharp |-> "long", dart |-> "int", java |-> "long",
     python |-> "int", go |-> "int64", kotlin |-> "Long"]

floatMap ==
    [typescript |-> "number", csharp |-> "float", dart |-> "double",
     java |-> "float", python |-> "float", go |-> "float32", kotlin |-> "Float"]

stringFormats ==
    {"email", "uri", "url", "hostname", "ipv4", "ipv6", "byte", "binary", "password"}

mapFormattedType(baseType, format, language) ==
    IF format \in {"date-time", "date"} THEN dateMap[language]
    ELSE IF format = "uuid" THEN uuidMap[language]
    ELSE IF format = "int32" THEN mapBasicType("integer", language)
    ELSE IF format = "int64" THEN int64Map[language]
    ELSE IF format = "float" THEN floatMap[language]
    ELSE IF format = "double" THEN mapBasicType("number", language)
    ELSE IF format \in stringFormats THEN mapBasicType("string", language)
    ELSE mapBasicType(baseType, language)

\* /^[A-Z]/.test(text): the names of the documents are the texts with known
\* code units, every other text of the model starts with a lowercase letter
startsUpperCase(text) ==
    text \in DOMAIN codeUnits /\ codeUnits[text][1] \in 65..90

\* a plausible slip: the array form of one language used for another
arrayOf_GoAsTypeScript(mapped, language) ==
    CASE language = "typescript" -> <<"[]">> \o mapped
      [] language = "csharp"     -> <<"List<">> \o mapped \o <<">">>
      [] language = "dart"       -> <<"List<">> \o mapped \o <<">">>
      [] language = "java"       -> <<"List<">> \o mapped \o <<">">>
      [] language = "python"     -> <<"list[">> \o mapped \o <<"]">>
      [] language = "go"         -> mapped \o <<"[]">>
      [] language = "kotlin"     -> <<"List<">> \o mapped \o <<">">>

\* the switch of mapType on a type that ends with "[]"
arrayOf(mapped, language) ==
    CASE language = "typescript" -> mapped \o <<"[]">>
      [] language = "csharp"     -> <<"List<">> \o mapped \o <<">">>
      [] language = "dart"       -> <<"List<">> \o mapped \o <<">">>
      [] language = "java"       -> <<"List<">> \o mapped \o <<">">>
      [] language = "python"     -> <<"list[">> \o mapped \o <<"]">>
      [] language = "go"         -> <<"[]">> \o mapped
      [] language = "kotlin"     -> <<"List<">> \o mapped \o <<">">>

\* a plausible slip: the enumeration kept as it is in every language
enumType_KeptAsIs(openApiType, language) == openApiType

\* the switch of mapType on a type that starts with "enum("
enumType(openApiType, language) ==
    CASE language = "typescript" -> openApiType
      [] language = "csharp"     -> <<"string">>
      [] language = "dart"       -> <<"String">>
      [] language = "java"       -> <<"String">>
      [] language = "python"     -> <<"str">>
      [] language = "go"         -> <<"string">>
      [] language = "kotlin"     -> <<"String">>

\* openApiType.match(/^(\w+)\(([^)]+)\)$/)
formatMatch(openApiType) ==
    /\ Len(openApiType) = 4
    /\ openApiType[2] = "(" /\ openApiType[4] = ")"
    /\ openApiType[1] # "" /\ openApiType[3] # ""

RECURSIVE mapType(_, _)
mapType(openApiType, language) ==
    IF openApiType # <<>> /\ Last(openApiType) = "[]"
    THEN arrayOf(mapType(SubSeq(openApiType, 1, Len(openApiType) - 1), language),
                 language)
    ELSE IF openApiType # <<>> /\ Head(openApiType) = "enum("
    THEN enumType(openApiType, language)
    ELSE IF formatMatch(openApiType)
    THEN <<mapFormattedType(openApiType[1], openApiType[3], language)>>
    ELSE IF openApiType # <<>> /\ startsUpperCase(Head(openApiType))
    THEN openApiType
    ELSE <<mapBasicType(textOf(openApiType), language)>>

\* name.charAt(0).toUpperCase() + name.slice(1), on the field names of the model
capitalize(name) ==
    CASE name = "x" -> "X" [] name = "y" -> "Y" [] name = "z" -> "Z"
      [] name = "petName" -> "PetName" [] OTHER -> name

\* name.replace(/([A-Z])/g, "_$1").toLowerCase().replace(/^_/, "")
snakeCase(name) ==
    CASE name = "petName" -> "pet_name" [] OTHER -> name

formatFieldName(name, language) ==
    CASE language \in {"typescript", "java", "kotlin", "dart"} -> name
      [] language = "csharp" -> capitalize(name)
      [] language = "python" -> snakeCase(name)
      [] language = "go"     -> capitalize(name)

-----------------------------------------------------------------------------
(* dto-generator.ts: the generators *)

\* the lines of lines.join("\n"): the empty string is one empty line
joinLines(lines) == IF lines = <<>> THEN << <<>> >> ELSE lines

\* fields.map(line): one line per <<field, type>> entry
mapFields(fields, line(_, _)) == [i \in DOMAIN fields |-> line(fields[i][1], fields[i][2])]

\* values.map((v) => `"${v}"`).join(" | ") of type.slice(5, -1).split(", ")
RECURSIVE unionFrom(_, _)
unionFrom(type, i) ==
    IF i >= Len(type) THEN <<>>
    ELSE <<"\"", type[i], "\"">>
            \o (IF i + 2 < Len(type) THEN <<" | ">> ELSE <<>>)
            \o unionFrom(type, i + 2)

typeScriptLine(field, type) ==
    IF Head(type) = "enum("
    THEN <<"  ", field, "?: ">> \o unionFrom(type, 2) \o <<";">>
    ELSE <<"  ", field, "?: ">> \o mapType(type, "typescript") \o <<";">>

generateTypeScript(name, fields) ==
    << <<"export interface ", name, " {">> >>
        \o joinLines(mapFields(fields, typeScriptLine))
        \o << <<"}">> >>

cSharpLine(field, type) ==
    <<"    public ">> \o mapType(type, "csharp")
        \o <<"? ", formatFieldName(field, "csharp"), " { get; set; }">>

generateCSharp(name, fields) ==
    << <<"public class ", name>>, <<"{">> >>
        \o joinLines(mapFields(fields, cSharpLine))
        \o << <<"}">> >>

dartFieldLine(field, type) ==
    <<"  final ">> \o mapType(type, "dart") \o <<"? ", field, ";">>

dartParamLine(field, type) == <<"    this.", field, ",">>

dartFactoryLine(field, type) ==
    IF /\ Head(mapType(type, "dart")) = "List<"
       /\ removeBrackets(type) # <<>>
       /\ startsUpperCase(Head(removeBrackets(type)))
    THEN <<"      ", field, ": (json['", field, "'] as List?)?.map((e) => ">>
            \o removeBrackets(type) \o <<".fromJson(e)).toList(),">>
    ELSE IF startsUpperCase(Head(type)) /\ Last(type) # "[]"
    THEN <<"      ", field, ": json['", field, "'] != null ? ">> \o type
            \o <<".fromJson(json['", field, "']) : null,">>
    ELSE <<"      ", field, ": json['", field, "'],">>

dartToJsonLine(field, type) ==
    IF /\ Last(type) = "[]"
       /\ removeBrackets(type) # <<>>
       /\ startsUpperCase(Head(removeBrackets(type)))
    THEN <<"      '", field, "': ", field, "?.map((e) => e.toJson()).toList(),">>
    ELSE IF startsUpperCase(Head(type)) /\ Last(type) # "[]"
    THEN <<"      '", field, "': ", field, "?.toJson(),">>
    ELSE <<"      '", field, "': ", field, ",">>

generateDart(name, fields) ==
    << <<"class ", name, " {">> >>
        \o joinLines(mapFields(fields, dartFieldLine))
        \o << <<>>, <<"  ", name, "({">> >>
        \o joinLines(mapFields(fields, dartParamLine))
        \o << <<"  });">>, <<>>,
              <<"  factory ", name, ".fromJson(Map<String, dynamic> json) {">>,
              <<"    return ", name, "(">> >>
        \o joinLines(mapFields(fields, dartFactoryLine))
        \o << <<"    );">>, <<"  }">>, <<>>,
              <<"  Map<String, dynamic> toJson() {">>, <<"    return {">> >>
        \o joinLines(mapFields(fields, dartToJsonLine))
        \o << <<"    };">>, <<"  }">>, <<"}">> >>

javaFieldLine(field, type) ==
    <<"    private ">> \o mapType(type, "java") \o <<" ", field, ";">>

\* fields.flatMap: an empty line, the getter and the setter of each field
RECURSIVE javaMethods(_, _)
javaMethods(fields, i) ==
    IF i > Len(fields) THEN <<>>
    ELSE LET field  == fields[i][1]
             mapped == mapType(fields[i][2], "java")
             cap    == capitalize(field)
         IN  << <<>>,
                <<"    public ">> \o mapped
                    \o <<" get", cap, "() { return ", field, "; }">>,
                <<"    public void set", cap, "(">> \o mapped
                    \o <<" ", field, ") { this.", field, " = ", field, "; }">> >>
             \o javaMethods(fields, i + 1)

generateJava(name, fields) ==
    << <<"public class ", name, " {">> >>
        \o joinLines(mapFields(fields, javaFieldLine))
        \o joinLines(javaMethods(fields, 1))
        \o << <<"}">> >>

pythonLine(field, type) ==
    <<"    ", formatFieldName(field, "python"), ": ">> \o mapType(type, "python")
        \o <<" | None = None">>

generatePython(name, fields) ==
    << <<"@dataclass">>, <<"class ", name, ":">> >>
        \o (IF Len(fields) > 0 THEN mapFields(fields, pythonLine)
            ELSE << <<"    pass">> >>)

\* mapped.startsWith("[]") || mapped.startsWith("map"): of the texts mapType
\* returns for the model's labels only the object type starts with "map"
goPointer(mapped) ==
    IF Head(mapped) = "[]" \/ Head(mapped) = "map[string]interface{}"
    THEN mapped ELSE <<"*">> \o mapped

\* the grave accent that delimits a Go struct tag
GraveAccent == "U+0060"

goLine(field, type) ==
    <<"\t", formatFieldName(field, "go"), " ">> \o goPointer(mapType(type, "go"))
        \o <<" ", GraveAccent, "json:\"", field, ",omitempty\"", GraveAccent>>

generateGo(name, fields) ==
    << <<"type ", name, " struct {">> >>
        \o joinLines(mapFields(fields, goLine))
        \o << <<"}">> >>

kotlinLine(field, type) ==
    <<"    val ", field, ": ">> \o mapType(type, "kotlin") \o <<"? = null,">>

generateKotlin(name, fields) ==
    IF Len(fields) = 0 THEN << <<"data class ", name, "()">> >>
    ELSE << <<"data class ", name, "(">> >>
            \o mapFields(fields, kotlinLine)
            \o << <<")">> >>

\* the lines of the string `undefined` stands for in parts.join("\n\n")
UndefinedPart == << <<>> >>

\* generateSchemaDto: a switch without a default, so that a language outside
\* DtoLanguage gives undefined
generateSchemaDto(name, fields, language) ==
    CASE language = "typescript" -> generateTypeScript(name, fields)
      [] language = "csharp"     -> generateCSharp(name, fields)
      [] language = "dart"       -> generateDart(name, fields)
      [] language = "java"       -> generateJava(name, fields)
      [] language = "python"     -> generatePython(name, fields)
      [] language = "go"         -> generateGo(name, fields)
      [] language = "kotlin"     -> generateKotlin(name, fields)
      [] OTHER                   -> UndefinedPart

\* the language-specific header pushed first, if any
headerParts(language) ==
    CASE language = "python" ->
            << << <<"from dataclasses import dataclass">>,
                  <<"from datetime import datetime">>,
                  <<"from typing import Any">>,
                  <<"from uuid import UUID">>, <<>> >> >>
      [] language = "java" ->
            << << <<"import java.time.LocalDateTime;">>,
                  <<"import java.util.List;">>,
                  <<"import java.util.Map;">>,
                  <<"import java.util.UUID;">>, <<>> >> >>
      [] language = "go" -> << << <<"import \"time\"">>, <<>> >> >>
      [] language = "kotlin" ->
            << << <<"import java.time.LocalDateTime">>,
                  <<"import java.util.UUID">>, <<>> >> >>
      [] OTHER -> <<>>

\* a name of the list gets a declaration: it is defined and its flattened
\* mapping is not empty
emits(name, schemas) ==
    /\ name \in DOMAIN schemas
    /\ Len(simplifySchema(schemas[name], schemas)) # 0

\* for (const schemaName of schemaNames), from name k on
RECURSIVE dtoParts(_, _, _, _, _)
dtoParts(schemas, names, k, language, parts) ==
    IF k > Len(names) THEN parts
    ELSE IF ~emits(names[k], schemas)
    THEN dtoParts(schemas, names, k + 1, language, parts)
    ELSE dtoParts(schemas, names, k + 1, language,
            Append(parts,
                   generateSchemaDto(names[k],
                        simplifySchema(schemas[names[k]], schemas), language)))

\* the lines of parts.join("\n\n")
RECURSIVE joinParts(_, _)
joinParts(parts, k) ==
    IF Len(parts) = 0 THEN << <<>> >>
    ELSE IF k = Len(parts) THEN parts[k]
    ELSE parts[k] \o << <<>> >> \o joinParts(parts, k + 1)

generateDtos(schemas, names, language) ==
    joinParts(dtoParts(schemas, names, 1, language, headerParts(language)), 1)

-----------------------------------------------------------------------------
(* DTO Generator: the definitions, name lists and languages it is given *)

MaxNames == 2

\* the definition of A: without properties, one property of every shape, two
\* properties
DtoDefinitions ==
    {[type |-> "object"]}
    \cup {ObjectSchema(<< <<"x", p>> >>) : p \in FlatProps}
    \cup { ObjectSchema(<< <<"petName", StringProp>>, <<"x", SchemaRef("B")>> >>),
           ObjectSchema(<< <<"x", ArrayOf(SchemaRef("B"))>>,
                           <<"y", [type |-> "string", enum |-> <<"a", "b">>]>> >>) }

DtoSchemas ==
    {[n \in {"A", "B"} |-> IF n = "A" THEN d ELSE e] :
        d \in DtoDefinitions,
        e \in {ObjectSchema(<< <<"x", StringProp>> >>), [type |-> "object"]}}

\* a language identifier outside DtoLanguage
UnknownLanguage == "rust"

InitDto ==
    /\ allSchemas \in DtoSchemas
    /\ schemaNames \in SeqsUpTo({"A", "B", Undefined}, MaxNames)
    /\ lang \in Range(DTO_LANGUAGES) \cup {UnknownLanguage}
    /\ dto = <<>>
    /\ pc = "generateDtos"
    /\ NoOperation
    /\ NoDocument
    /\ NoDeep
    /\ NoExtraction
    /\ simplified = <<>>
    /\ data = <<>>
    /\ toon = <<>>
    /\ json = <<>>
    /\ again = <<>>
    /\ jsonString = <<>>
    /\ parseResult = <<>>
    /\ nativeTypes = <<>>

\* generateDtos(allSchemas, schemaNames, lang): it has no throw statement and
\* no call that can throw, so it always returns
GenerateDtos ==
    /\ pc = "generateDtos"
    /\ dto' = generateDtos(allSchemas, schemaNames, lang)
    /\ pc' = "generated"
    /\ UNCHANGED <<opVars, swagger, tagsInfo, allSchemas, schemaName, deep, exVars>>
    /\ UNCHANGED <<nativeTypes, jsonString, parseResult, simplified, schemaNames, lang, data, toon, json, again>>

NextDto == GenerateDtos

SpecDto == InitDto /\ [][NextDto]_vars

-----------------------------------------------------------------------------
(* DTO Generator: properties *)

KnownLanguage == lang \in Range(DTO_LANGUAGES)

\* the words that open a type declaration in the seven target languages
DeclarationWords ==
    {"export interface ", "public class ", "class ", "type ", "data class "}

IsDeclaration(line) == Len(line) >= 2 /\ line[1] \in DeclarationWords

\* the names declared by a text, in the order of their declarations
RECURSIVE DeclaredFrom(_, _)
DeclaredFrom(text, i) ==
    IF i > Len(text) THEN <<>>
    ELSE IF IsDeclaration(text[i]) THEN <<text[i][2]>> \o DeclaredFrom(text, i + 1)
    ELSE DeclaredFrom(text, i + 1)

DeclaredNames == DeclaredFrom(dto, 1)

\* C12: for a target language of the closed set and a list of defined names,
\* the text generateDtos returns declares exactly the names of the list, one
\* declaration each, in the order of the list.
C12_OneDeclarationPerName ==
    (/\ pc = "generated"
     /\ KnownLanguage
     /\ \A i \in DOMAIN schemaNames : schemaNames[i] \in DOMAIN allSchemas)
        => DeclaredNames = schemaNames

\* C12 for the lists whose names all have at least one field
C12_OneDeclarationPerNameWithFields ==
    (/\ pc = "generated"
     /\ KnownLanguage
     /\ \A i \in DOMAIN schemaNames :
            /\ schemaNames[i] \in DOMAIN allSchemas
            /\ simplifySchema(allSchemas[schemaNames[i]], allSchemas) # <<>>)
        => DeclaredNames = schemaNames

\* sub occurs in line as a run of consecutive tokens
Contains(line, sub) ==
    \E k \in 0..(Len(line) - Len(sub)) : SubSeq(line, k + 1, k + Len(sub)) = sub

\* where the declaration of name begins in the text (0 when it has none)
DeclarationAt(name) ==
    IF \E i \in DOMAIN dto : IsDeclaration(dto[i]) /\ dto[i][2] = name
    THEN CHOOSE i \in DOMAIN dto :
            /\ IsDeclaration(dto[i]) /\ dto[i][2] = name
            /\ \A j \in 1..(i - 1) : ~(IsDeclaration(dto[j]) /\ dto[j][2] = name)
    ELSE 0

\* the line that declares the k-th field of name: the k-th line after the
\* one opening the declaration (C# has a line with the brace in between)
FieldLine(name, k) ==
    dto[DeclarationAt(name) + k + (IF lang = "csharp" THEN 1 ELSE 0)]

\* the properties of a definition whose label is that of a reference
IsReferenceLabel(label) ==
    /\ label # <<>>
    /\ Head(label) \in DefNames \cup {Undefined}
    /\ Len(label) = 1 \/ (Len(label) = 2 /\ label[2] = "[]")

\* the array form of the target language around a name
StatedArrayOf(name) ==
    CASE lang = "typescript" -> <<name, "[]">>
      [] lang \in {"csharp", "dart", "java", "kotlin"} -> <<"List<", name, ">">>
      [] lang = "python" -> <<"list[", name, "]">>
      [] lang = "go" -> <<"[]", name>>

StatedReferenceType(label) ==
    IF Len(label) = 1 THEN label ELSE StatedArrayOf(Head(label))

FlatOf(name) == simplifySchema(allSchemas[name], allSchemas)

\* C13: in the text generated for any target language, the field of a
\* property whose label is a reference is typed with the referenced name
\* unchanged (in the target's array form for <Name>[]), and only names of the
\* supplied list are declared.
C13_ReferenceKeepsName ==
    (pc = "generated" /\ KnownLanguage) =>
        /\ \A n \in Range(schemaNames) \cap DOMAIN allSchemas :
              \A k \in DOMAIN FlatOf(n) :
                  IsReferenceLabel(FlatOf(n)[k][2]) =>
                      Contains(FieldLine(n, k),
                               StatedReferenceType(FlatOf(n)[k][2]))
        /\ Range(DeclaredNames) \subseteq Range(schemaNames)

\* an array of references to B has been rendered for Go, B not being declared
C13_Witness ==
    /\ pc = "generated"
    /\ lang = "go"
    /\ schemaNames = <<"A">>
    /\ \E i \in DOMAIN dto : Contains(dto[i], <<"[]", "B">>)
    /\ DeclaredNames = <<"A">>

\* the plain string type of the targets without inline unions
StatedStringType ==
    CASE lang \in {"csharp", "go"} -> "string"
      [] lang \in {"dart", "java", "kotlin"} -> "String"
      [] lang = "python" -> "str"
      [] OTHER -> ""

IsEnumLabel(label) == label # <<>> /\ Head(label) = "enum("

\* "v1" | ... | "vn" for the label enum(v1, ..., vn) of one to three values
StatedUnion(label) ==
    CASE Len(label) = 3 -> <<"\"", label[2], "\"">>
      [] Len(label) = 5 -> <<"\"", label[2], "\"", " | ", "\"", label[4], "\"">>
      [] Len(label) = 7 -> <<"\"", label[2], "\"", " | ", "\"", label[4], "\"",
                             " | ", "\"", label[6], "\"">>

\* C14: the field of a property labelled enum(v1, ..., vn) is typed, by the
\* TypeScript generator, with the union "v1" | ... | "vn" of string literals
\* and, by every other generator, with the target's plain string type; no
\* generator writes the label itself.
C14_EnumRendering ==
    (pc = "generated" /\ KnownLanguage) =>
        \A n \in Range(schemaNames) \cap DOMAIN allSchemas :
            \A k \in DOMAIN FlatOf(n) :
                IsEnumLabel(FlatOf(n)[k][2]) =>
                    /\ ~Contains(FieldLine(n, k), <<"enum(">>)
                    /\ IF lang = "typescript"
                       THEN Contains(FieldLine(n, k),
                                <<"?: ">> \o StatedUnion(FlatOf(n)[k][2]) \o <<";">>)
                       ELSE Contains(FieldLine(n, k), <<StatedStringType>>)

\* an enumeration of two values has been rendered as a TypeScript union
C14_Witness ==
    /\ pc = "generated"
    /\ lang = "typescript"
    /\ \E i \in DOMAIN dto :
          dto[i] = <<"  ", "y", "?: ", "\"", "a", "\"", " | ", "\"", "b", "\"", ";">>

\* enumerations have been rendered for a target without unions
C14_WitnessPlain ==
    /\ pc = "generated"
    /\ lang = "kotlin"
    /\ \E i \in DOMAIN dto : dto[i] = <<"    val ", "y", ": ", "String", "? = null,">>

\* C15: a call of generateDtos with a language identifier outside the closed
\* set ends in an error, never in a returned text.
C15_UnknownLanguageRejected ==
    (pc # "generateDtos" /\ ~KnownLanguage) => pc = "rejected"

-----------------------------------------------------------------------------
(* tags-table.tsx: getDeepSchemaFields, on an endpoint of an extraction *)

\* the body and response labels of the endpoints of the result
EndpointLabels ==
    UNION {{e[m] : m \in DOMAIN e \cap {"body", "response"}} :
             e \in UNION {Range(result.endpoints[i][2]) : i \in DOMAIN result.endpoints}}

\* getDeepSchemaFields(schemaName, allSchemas) for a label of an endpoint
GetDeepSchemaFields ==
    /\ pc = "returned"
    /\ \E label \in EndpointLabels :
        /\ schemaName' = label
        /\ deep' = resolveSchemaDeep(label, allSchemas)
    /\ pc' = "resolved"
    /\ UNCHANGED <<opVars, swagger, tagsInfo, allSchemas, exVars, outVars>>

NextBrowse == NextExtract \/ GetDeepSchemaFields

SpecBrowse == InitExtract /\ [][NextBrowse]_vars

-----------------------------------------------------------------------------
(* Missing references: properties *)

\* the properties of a definition that refer directly to an undefined name
DanglingProperties(definition) ==
    IF Has(definition, "properties")
    THEN {i \in DOMAIN definition.properties :
            /\ Has(definition.properties[i][2], "ref")
            /\ Last(definition.properties[i][2].ref) \notin DOMAIN allSchemas}
    ELSE {}

ExtractionReturned == pc \in {"returned", "resolved"}

\* the definition a label names, when it names one
Named(label) == allSchemas[Head(label)]

NamesDefinition(label) == label # <<>> /\ Head(label) \in DOMAIN allSchemas

\* C16: a reference to an undefined name makes no core function fail.  Once
\* extractByTags has returned, a property of an extracted definition that
\* refers to an undefined name is labelled with that name, and no undefined
\* name is a key of the schema mapping; once resolveSchemaDeep has returned
\* for a defined root, the stack was not exhausted and such a property of the
\* root is a leaf DeepField carrying the label only.
C16_DanglingReferenceTolerated ==
    /\ ExtractionReturned =>
          /\ Range(SchemaKeys) \subseteq DOMAIN allSchemas
          /\ \A k \in DOMAIN result.schemas :
                LET definition == allSchemas[result.schemas[k][1]]
                IN  ~Has(definition, "allOf") =>
                        \A i \in DanglingProperties(definition) :
                            result.schemas[k][2][i]
                                = << definition.properties[i][1],
                                     <<Last(definition.properties[i][2].ref)>> >>
    /\ (pc = "resolved" /\ NamesDefinition(schemaName)) =>
          /\ ~deep.isNull /\ ~deep.overflow
          /\ ~Has(Named(schemaName), "allOf") =>
                \A i \in DanglingProperties(Named(schemaName)) :
                    deep.fields[i]
                        = << Named(schemaName).properties[i][1],
                             [type |-> <<Last(Named(schemaName).properties[i][2].ref)>>] >>

\* an extraction reached an undefined name, left it out of the mapping and
\* labelled the property with it; the deep flattener made the property a leaf
C16_Witness ==
    /\ pc = "resolved"
    /\ schemaName = <<"A">>
    /\ Undefined \in Range(usedSchemas)
    /\ ObjHas(result.schemas, "A")
    /\ ObjGet(result.schemas, "A") = << <<"x", <<Undefined>> >> >>
    /\ deep.fields = << <<"x", [type |-> <<Undefined>>] >> >>

-----------------------------------------------------------------------------
(* toon-formatter.ts: escapeValue, toToon *)
(* For the encoders a string is the sequence of its pieces, the characters *)
(* the encoders look for (comma, colon, newline, double quote, backslash)  *)
(* being pieces of their own: "a, b" is <<"a", ",", " b">>.  A text is the *)
(* sequence of the strings that lines.join("\n") joins.                    *)

Comma == ","

Colon == ":"

Newline == "\n"

Quote == "\""

Backslash == "\\"

\* value.includes(",") || value.includes("\n") || value.includes(":")
needsQuotes(value) == \E i \in DOMAIN value : value[i] \in {Comma, Newline, Colon}

\* value.replace(/"/g, '\\"')
RECURSIVE escapeQuotes(_)
escapeQuotes(value) ==
    IF value = <<>> THEN <<>>
    ELSE (IF Head(value) = Quote THEN <<Backslash, Quote>> ELSE <<Head(value)>>)
            \o escapeQuotes(Tail(value))

\* a plausible slip: every value written as it is
escapeValue_Never(value) == value

escapeValue(value) ==
    IF needsQuotes(value) THEN <<Quote>> \o escapeQuotes(value) \o <<Quote>>
    ELSE value

\* strings.join(separator)
RECURSIVE joinFrom(_, _, _)
joinFrom(strings, separator, i) ==
    IF i > Len(strings) THEN <<>>
    ELSE IF i = Len(strings) THEN strings[i]
    ELSE strings[i] \o <<separator>> \o joinFrom(strings, separator, i + 1)

join(strings, separator) == joinFrom(strings, separator, 1)

\* a plausible slip: a column present whatever the endpoints hold
some_Always(endpoints, member) == TRUE

\* endpoints.some((e) => e[member]): a missing member, an empty string and
\* (for params, by ?.length) an empty array do not count
some(endpoints, member) ==
    \E i \in DOMAIN endpoints :
        Has(endpoints[i], member) /\ Len(endpoints[i][member]) > 0

\* e[member] || ""
orEmpty(ep, member) == IF Has(ep, member) THEN ep[member] ELSE <<>>

\* the fields list of a tag: path, method, summary always
toonFields(endpoints) ==
    <<"path", "method", "summary">>
        \o (IF some(endpoints, "description") THEN <<"desc">> ELSE <<>>)
        \o (IF some(endpoints, "params") THEN <<"params">> ELSE <<>>)
        \o (IF some(endpoints, "body") THEN <<"body">> ELSE <<>>)
        \o (IF some(endpoints, "response") THEN <<"response">> ELSE <<>>)

\* the values of one row
toonValues(endpoints, ep) ==
    << escapeValue(ep.path), ep.method, escapeValue(orEmpty(ep, "summary")) >>
        \o (IF some(endpoints, "description")
            THEN <<escapeValue(orEmpty(ep, "description"))>> ELSE <<>>)
        \o (IF some(endpoints, "params")
            THEN <<join(orEmpty(ep, "params"), ";")>> ELSE <<>>)
        \o (IF some(endpoints, "body") THEN <<orEmpty(ep, "body")>> ELSE <<>>)
        \o (IF some(endpoints, "response") THEN <<orEmpty(ep, "response")>> ELSE <<>>)

\* the header and the rows of one tag
toonGroup(tag, endpoints) ==
    << <<"  ">> \o tag \o <<"[", ToString(Len(endpoints)), "]{">>
          \o join([i \in DOMAIN toonFields(endpoints) |-> <<toonFields(endpoints)[i]>>],
                  Comma)
          \o <<"}", Colon>> >>
    \o [i \in DOMAIN endpoints |->
          <<"    ">> \o join(toonValues(endpoints, endpoints[i]), Comma)]

\* for (const [tag, endpoints] of Object.entries(data.endpoints)), from k on
RECURSIVE toonEndpoints(_, _)
toonEndpoints(endpoints, k) ==
    IF k > Len(endpoints) THEN <<>>
    ELSE (IF Len(endpoints[k][2]) = 0 THEN <<>>
          ELSE toonGroup(endpoints[k][1], endpoints[k][2]))
         \o toonEndpoints(endpoints, k + 1)

\* the lines of one schema
toonSchema(name, fields) ==
    << <<"  ">> \o name \o <<Colon>> >>
    \o [i \in DOMAIN fields |->
          <<"    ">> \o fields[i][1] \o <<Colon, " ">> \o escapeValue(fields[i][2])]

RECURSIVE toonSchemas(_, _)
toonSchemas(schemas, k) ==
    IF k > Len(schemas) THEN <<>>
    ELSE toonSchema(schemas[k][1], schemas[k][2]) \o toonSchemas(schemas, k + 1)

toToon(d) ==
    << <<"api", Colon, " ">> \o escapeValue(d.api),
       <<"extracted_tags[", ToString(Len(d.extracted_tags)), "]", Colon, " ">>
          \o join(d.extracted_tags, Comma),
       <<"endpoints", Colon>> >>
    \o toonEndpoints(d.endpoints, 1)
    \o << <<"schemas", Colon>> >>
    \o toonSchemas(d.schemas, 1)

-----------------------------------------------------------------------------
(* Encoders: the extraction results they are given *)

MaxEndpoints == 2

\* tag names: plain, and with a comma as in "Pets, Store"
EncodedTags == { <<"pets">>, <<"store">>, <<"Pets", Comma, " Store">> }

\* endpoint descriptors: bare; with every member; with a summary holding a
\* comma and quotes; with a response named after a generic type, as in
\* "Map<string,Pet>"; with a summary holding a backslash and a line break;
\* with no parameter in its list
EncodedEndpoints ==
    { [path |-> <<"/pets">>, method |-> <<"GET">>],
      [path |-> <<"/pets">>, method |-> <<"PATCH">>, params |-> <<>>,
       body |-> <<"Pet">>],
      [path |-> <<"/pets">>, method |-> <<"POST">>, summary |-> <<"Add a pet">>,
       params |-> << <<"id*(path)">>, <<"q">> >>, body |-> <<"Pet">>,
       response |-> <<"Pet[]">>],
      [path |-> <<"/pets">>, method |-> <<"PUT">>,
       summary |-> <<"Update", Comma, " then say ", Quote, "done", Quote>>,
       response |-> <<"Pet">>],
      [path |-> <<"/pets/{id}">>, method |-> <<"GET">>,
       response |-> <<"Map<string", Comma, "Pet>">>],
      [path |-> <<"/pets/{id}">>, method |-> <<"DELETE">>,
       summary |-> <<"Remove a", Backslash, "n", Newline, "for good">>,
       params |-> << <<"id*(path)">> >>] }

EndpointLists ==
    {list \in SeqsUpTo(EncodedEndpoints, MaxEndpoints) : Len(list) > 0}

EncodedSchemas ==
    { <<>>,
      << << <<"Pet">>, << << <<"id">>, <<"integer(int64)">> >>,
                         << <<"status">>, <<"enum(a", Comma, " b)">> >> >> >> >>,
      << << <<"Owner">>, <<>> >>,
         << <<"Pet">>, << << <<"owner">>, <<"Owner">> >> >> >> >>,
      << << <<"9">>, << << <<"x">>, <<"string">> >> >> >>,
         << <<"10">>, << << <<"x">>, <<"9">> >> >> >> >> }

EncodedApis == { <<"Petstore v1.0.0">>, <<"Petstore", Colon, " core v2">> }

\* results for one selected tag, for two, and for a tag the index lacks
EncoderResults ==
    {[ api |-> a, extracted_tags |-> <<t>>, endpoints |-> << <<t, list>> >>,
       schemas |-> sch ] :
         a \in EncodedApis, t \in EncodedTags, list \in EndpointLists,
         sch \in EncodedSchemas}
    \cup {[ api |-> a, extracted_tags |-> << <<"store">>, t >>,
            endpoints |-> << << <<"store">>, <<e>> >>, <<t, <<f>> >> >>,
            schemas |-> <<>> ] :
              a \in EncodedApis, t \in EncodedTags \ {<<"store">>},
              e \in EncodedEndpoints, f \in EncodedEndpoints}
    \cup {[ api |-> a, extracted_tags |-> << <<"ghost">> >>, endpoints |-> <<>>,
            schemas |-> <<>> ] : a \in EncodedApis}

InitEncode ==
    /\ data \in EncoderResults
    /\ toon = <<>>
    /\ json = <<>>
    /\ again = <<>>
    /\ jsonString = <<>>
    /\ parseResult = <<>>
    /\ nativeTypes = <<>>
    /\ pc = "encode"
    /\ NoOperation
    /\ NoDocument
    /\ NoSchemas
    /\ NoDeep
    /\ NoExtraction
    /\ simplified = <<>>
    /\ schemaNames = <<>>
    /\ lang = ""
    /\ dto = <<>>

-----------------------------------------------------------------------------
(* toJson, that is JSON.stringify(data, null, pretty ? 2 : 0)               *)
(* A value is seen by JSON.stringify as a string, an array or an object    *)
(* with its members in own-property order; the text is one string.         *)

JsonString(pieces) == [str |-> pieces]

JsonArray(items) == [arr |-> items]

JsonObject(members) == [obj |-> members]

\* the members of an endpoint descriptor in the order extractByTags writes
\* them; JSON.stringify leaves out a member that is undefined
endpointMembers == <<"path", "method", "summary", "params", "body", "response">>

endpointValue(ep) ==
    LET present == SelectSeq(endpointMembers, LAMBDA k : Has(ep, k))
    IN  JsonObject([i \in DOMAIN present |->
            << <<present[i]>>,
               IF present[i] = "params"
               THEN JsonArray([j \in DOMAIN ep.params |-> JsonString(ep.params[j])])
               ELSE JsonString(ep[present[i]]) >>])

\* the ExtractionResult as JSON.stringify walks it
resultValue(d) ==
    JsonObject(<<
        << <<"api">>, JsonString(d.api) >>,
        << <<"extracted_tags">>,
           JsonArray([i \in DOMAIN d.extracted_tags |->
                        JsonString(d.extracted_tags[i])]) >>,
        << <<"endpoints">>,
           JsonObject([i \in DOMAIN d.endpoints |->
              << d.endpoints[i][1],
                 JsonArray([j \in DOMAIN d.endpoints[i][2] |->
                              endpointValue(d.endpoints[i][2][j])]) >>]) >>,
        << <<"schemas">>,
           JsonObject([i \in DOMAIN d.schemas |->
              << d.schemas[i][1],
                 JsonObject([j \in DOMAIN d.schemas[i][2] |->
                    << d.schemas[i][2][j][1],
                       JsonString(d.schemas[i][2][j][2]) >>]) >>]) >> >>)

\* a plausible slip: the backslash written as it is
RECURSIVE quoteJson_RawBackslash(_)
quoteJson_RawBackslash(pieces) ==
    IF pieces = <<>> THEN <<>>
    ELSE (CASE Head(pieces) = Quote   -> <<Backslash, Quote>>
            [] Head(pieces) = Newline -> <<Backslash, "n">>
            [] OTHER                  -> <<Head(pieces)>>)
         \o quoteJson_RawBackslash(Tail(pieces))

\* the characters of a string between the quotes of its JSON literal
RECURSIVE quoteJson(_)
quoteJson(pieces) ==
    IF pieces = <<>> THEN <<>>
    ELSE (CASE Head(pieces) = Quote     -> <<Backslash, Quote>>
            [] Head(pieces) = Backslash -> <<Backslash, Backslash>>
            [] Head(pieces) = Newline   -> <<Backslash, "n">>
            [] OTHER                    -> <<Head(pieces)>>)
         \o quoteJson(Tail(pieces))

\* the indentation of a nesting level: two spaces per level
RECURSIVE indent(_)
indent(level) == IF level = 0 THEN <<>> ELSE <<"  ">> \o indent(level - 1)

RECURSIVE stringify(_, _)
RECURSIVE stringifyItems(_, _, _)
RECURSIVE stringifyMembers(_, _, _)

stringify(value, level) ==
    IF Has(value, "str") THEN <<Quote>> \o quoteJson(value.str) \o <<Quote>>
    ELSE IF Has(value, "arr")
    THEN IF value.arr = <<>> THEN <<"[]">>
         ELSE <<"[", Newline>> \o stringifyItems(value.arr, 1, level + 1)
                \o <<Newline>> \o indent(level) \o <<"]">>
    ELSE IF value.obj = <<>> THEN <<"{}">>
         ELSE <<"{", Newline>> \o stringifyMembers(value.obj, 1, level + 1)
                \o <<Newline>> \o indent(level) \o <<"}">>

stringifyItems(items, k, level) ==
    indent(level) \o stringify(items[k], level)
        \o (IF k = Len(items) THEN <<>>
            ELSE <<Comma, Newline>> \o stringifyItems(items, k + 1, level))

stringifyMembers(members, k, level) ==
    indent(level) \o <<Quote>> \o quoteJson(members[k][1]) \o <<Quote, Colon, " ">>
        \o stringify(members[k][2], level)
        \o (IF k = Len(members) THEN <<>>
            ELSE <<Comma, Newline>> \o stringifyMembers(members, k + 1, level))

\* toJson(data) with the default pretty = true
toJson(d) == stringify(resultValue(d), 0)

\* toToon(data); the text it returns is never empty
ToToon ==
    /\ pc = "encode"
    /\ toon = <<>>
    /\ toon' = toToon(data)
    /\ UNCHANGED <<opVars, swagger, tagsInfo, allSchemas, schemaName, deep, exVars>>
    /\ UNCHANGED <<nativeTypes, jsonString, parseResult, simplified, schemaNames, lang, dto, data, json, again, pc>>

\* toJson(data); the text it returns is never empty
ToJson ==
    /\ pc = "encode"
    /\ json = <<>>
    /\ json' = toJson(data)
    /\ UNCHANGED <<opVars, swagger, tagsInfo, allSchemas, schemaName, deep, exVars>>
    /\ UNCHANGED <<nativeTypes, jsonString, parseResult, simplified, schemaNames, lang, dto, data, toon, again, pc>>

NextEncode == ToToon \/ ToJson

SpecEncode == InitEncode /\ [][NextEncode]_vars

-----------------------------------------------------------------------------
(* Reading the tabular text back: groups, headers, rows and cells *)

Encoded == toon # <<>>

\* the tag groups the text holds: the tags with at least one endpoint
Groups == SelectSeq(data.endpoints, LAMBDA g : Len(g[2]) > 0)

\* the line of the header of the k-th group; three lines come first
RECURSIVE HeaderLine(_)
HeaderLine(k) ==
    IF k = 1 THEN 4 ELSE HeaderLine(k - 1) + 1 + Len(Groups[k - 1][2])

\* the position in a header of the bracket that opens the field list
FieldsOpen(header) ==
    CHOOSE i \in DOMAIN header :
        header[i] = "]{" /\ \A j \in DOMAIN header : j > i => header[j] # "]{"

HeaderFields(header) ==
    SelectSeq(SubSeq(header, FieldsOpen(header) + 1, Len(header) - 2),
              LAMBDA piece : piece # Comma)

HeaderCount(header) == header[FieldsOpen(header) - 1]

\* the cells of a comma-separated line: a comma separates two cells unless
\* it stands inside a cell that opens with a double quote, where \" is a
\* quote of the value
RECURSIVE SplitCells(_, _, _, _)
SplitCells(text, i, cell, quoted) ==
    IF i > Len(text) THEN <<cell>>
    ELSE IF quoted
    THEN IF text[i] = Backslash /\ i < Len(text) /\ text[i + 1] = Quote
         THEN SplitCells(text, i + 2, cell \o <<Backslash, Quote>>, TRUE)
         ELSE SplitCells(text, i + 1, Append(cell, text[i]), text[i] # Quote)
    ELSE IF text[i] = Comma
    THEN <<cell>> \o SplitCells(text, i + 1, <<>>, FALSE)
    ELSE SplitCells(text, i + 1, Append(cell, text[i]),
                    text[i] = Quote /\ cell = <<>>)

Cells(text) == SplitCells(text, 1, <<>>, FALSE)

\* the value a cell stands for: what is between its quotes, \" read as "
RECURSIVE Unescape(_)
Unescape(text) ==
    IF text = <<>> THEN <<>>
    ELSE IF Len(text) > 1 /\ text[1] = Backslash /\ text[2] = Quote
    THEN <<Quote>> \o Unescape(Tail(Tail(text)))
    ELSE <<text[1]>> \o Unescape(Tail(text))

Unquote(cell) ==
    IF Len(cell) > 1 /\ cell[1] = Quote /\ cell[Len(cell)] = Quote
    THEN Unescape(SubSeq(cell, 2, Len(cell) - 1))
    ELSE cell

\* the value of a field of an endpoint as a row shows it
FieldValue(ep, field) ==
    IF field = "params"
    THEN IF Has(ep, "params") THEN join(ep.params, ";") ELSE <<>>
    ELSE orEmpty(ep, field)

\* the cells of the r-th row of the k-th group, without the indentation
RowCells(k, r) == Cells(Tail(toon[HeaderLine(k) + r]))

RowMatchesHeader(k, r) ==
    LET fields == HeaderFields(toon[HeaderLine(k)])
        cells  == RowCells(k, r)
    IN  /\ Len(cells) = Len(fields)
        /\ \A c \in DOMAIN fields :
             c \in DOMAIN cells
               /\ Unquote(cells[c]) = FieldValue(Groups[k][2][r], fields[c])

ResponseColumn(k) ==
    (\E r \in DOMAIN Groups[k][2] : Has(Groups[k][2][r], "response"))
      => \E c \in DOMAIN HeaderFields(toon[HeaderLine(k)]) :
            HeaderFields(toon[HeaderLine(k)])[c] = "response"

\* C17: within one tag group every row has exactly as many cells, in the
\* same order, as the fields listed in the header of the group, and when
\* some endpoint of the tag declares a response the header has a response
\* column and every row has a response cell, empty where absent.
C17_RowsMatchHeader ==
    Encoded =>
      \A k \in DOMAIN Groups :
          /\ ResponseColumn(k)
          /\ \A r \in DOMAIN Groups[k][2] : RowMatchesHeader(k, r)

\* the members of a row written as they are: method, params, body, response
RawMembers == {"method", "params", "body", "response"}

NoCommaInRawCells ==
    \A k \in DOMAIN Groups : \A r \in DOMAIN Groups[k][2] :
        \A field \in RawMembers :
            \A i \in DOMAIN FieldValue(Groups[k][2][r], field) :
                FieldValue(Groups[k][2][r], field)[i] # Comma

\* the same where no cell written as it is holds a comma
C17_RowsMatchHeaderPlainCells ==
    (Encoded /\ NoCommaInRawCells) =>
      \A k \in DOMAIN Groups :
          /\ ResponseColumn(k)
          /\ \A r \in DOMAIN Groups[k][2] : RowMatchesHeader(k, r)

\* a group where one endpoint declares a response and another does not
C17_SomeWithoutResponse ==
    /\ Encoded
    /\ NoCommaInRawCells
    /\ \E k \in DOMAIN Groups :
         /\ \E r \in DOMAIN Groups[k][2] : Has(Groups[k][2][r], "response")
         /\ \E r \in DOMAIN Groups[k][2] :
              /\ ~Has(Groups[k][2][r], "response")
              /\ \E c \in DOMAIN RowCells(k, r) :
                   /\ c \in DOMAIN HeaderFields(toon[HeaderLine(k)])
                   /\ HeaderFields(toon[HeaderLine(k)])[c] = "response"
                   /\ RowCells(k, r)[c] = <<>>

\* the number of rows that follow a line: the lines indented by four spaces
RECURSIVE RowsAfter(_)
RowsAfter(line) ==
    IF line + 1 \in DOMAIN toon /\ toon[line + 1] # <<>>
         /\ toon[line + 1][1] = "    "
    THEN 1 + RowsAfter(line + 1)
    ELSE 0

\* the member of an endpoint that a field of a header shows
MemberOf(field) == IF field = "desc" THEN "description" ELSE field

\* an endpoint of the k-th group populates the field
Populated(k, field) ==
    \E r \in DOMAIN Groups[k][2] :
        /\ Has(Groups[k][2][r], MemberOf(field))
        /\ Groups[k][2][r][MemberOf(field)] # <<>>

CountIsRows(k) ==
    HeaderCount(toon[HeaderLine(k)]) = ToString(RowsAfter(HeaderLine(k)))

\* the fields a header may list, in the order it lists them
OptionalFields == <<"desc", "params", "body", "response">>

\* C18 as stated: the header of each tag group lists only the fields
\* populated by at least one endpoint of that tag, and the count in
\* <tag>[<count>] equals the number of rows that follow.
C18_OnlyPopulatedFields ==
    Encoded =>
      \A k \in DOMAIN Groups :
          /\ \A c \in DOMAIN HeaderFields(toon[HeaderLine(k)]) :
                 Populated(k, HeaderFields(toon[HeaderLine(k)])[c])
          /\ CountIsRows(k)

\* C18: the header of each tag group lists path, method and summary always
\* and, after them, of desc, params, body and response exactly those that
\* at least one endpoint of the tag populates; the count in <tag>[<count>]
\* equals the number of rows that follow.
C18_OptionalFieldsWhenPopulated ==
    Encoded =>
      \A k \in DOMAIN Groups :
          /\ HeaderFields(toon[HeaderLine(k)]) =
                <<"path", "method", "summary">>
                    \o SelectSeq(OptionalFields, LAMBDA f : Populated(k, f))
          /\ CountIsRows(k)

\* a group of two rows with no summary, a body in one row, an empty list of
\* parameters and no response: summary and body are columns, params and
\* response are not
C18_Witness ==
    /\ Encoded
    /\ \E k \in DOMAIN Groups :
         /\ Len(Groups[k][2]) = MaxEndpoints
         /\ RowsAfter(HeaderLine(k)) = MaxEndpoints
         /\ ~Populated(k, "summary")
         /\ ~Populated(k, "response")
         /\ \E r \in DOMAIN Groups[k][2] :
              Has(Groups[k][2][r], "params") /\ ~Populated(k, "params")
         /\ HeaderFields(toon[HeaderLine(k)]) = <<"path", "method", "summary", "body">>

-----------------------------------------------------------------------------
(* Quoting of the values of the tabular text *)

Special == {Comma, Newline, Colon}

HasSpecial(value) == \E i \in DOMAIN value : value[i] \in Special

\* a value as the tabular text is to show it: as it is unless it holds a
\* comma, a newline or a colon, and then between double quotes with each of
\* its double quotes after a backslash
RECURSIVE StatedValueFrom(_, _)
StatedValueFrom(value, i) ==
    IF i > Len(value) THEN <<>>
    ELSE (IF value[i] = Quote THEN <<Backslash, Quote>> ELSE <<value[i]>>)
            \o StatedValueFrom(value, i + 1)

StatedValue(value) ==
    IF HasSpecial(value) THEN <<Quote>> \o StatedValueFrom(value, 1) \o <<Quote>>
    ELSE value

\* texts with a separator between them
RECURSIVE Joined(_, _, _)
Joined(texts, separator, i) ==
    IF i > Len(texts) THEN <<>>
    ELSE texts[i] \o (IF i = Len(texts) THEN <<>> ELSE <<separator>>)
            \o Joined(texts, separator, i + 1)

ApiLineStated == toon[1] = <<"api", Colon, " ">> \o StatedValue(data.api)

TagsLineStated ==
    toon[2] = <<"extracted_tags[", ToString(Len(data.extracted_tags)), "]", Colon, " ">>
                \o Joined([i \in DOMAIN data.extracted_tags |->
                              StatedValue(data.extracted_tags[i])], Comma, 1)

\* the r-th row of the k-th group, every cell as stated
RowStated(k, r, fields) ==
    toon[HeaderLine(k) + r] =
        <<"    ">> \o Joined([c \in DOMAIN fields |->
                                StatedValue(FieldValue(Groups[k][2][r], fields[c]))],
                             Comma, 1)

\* the r-th row of the k-th group, the cells of the given fields as stated
CellsStated(k, r, fields) ==
    \A c \in DOMAIN HeaderFields(toon[HeaderLine(k)]) :
        HeaderFields(toon[HeaderLine(k)])[c] \in fields =>
            /\ c \in DOMAIN RowCells(k, r)
            /\ RowCells(k, r)[c] =
                 StatedValue(FieldValue(Groups[k][2][r],
                                        HeaderFields(toon[HeaderLine(k)])[c]))

\* the line of the name of the s-th schema; "schemas:" follows the groups
RECURSIVE SchemaLine(_)
SchemaLine(s) ==
    IF s = 1 THEN HeaderLine(Len(Groups) + 1) + 1
    ELSE SchemaLine(s - 1) + 1 + Len(data.schemas[s - 1][2])

SchemaTypesStated ==
    \A s \in DOMAIN data.schemas : \A f \in DOMAIN data.schemas[s][2] :
        toon[SchemaLine(s) + f] =
            <<"    ">> \o data.schemas[s][2][f][1] \o <<Colon, " ">>
                \o StatedValue(data.schemas[s][2][f][2])

\* C19: every value written by the tabular encoder (API string, tag-list
\* entries, row cells, schema field types) is emitted unquoted unless it
\* contains a comma, a newline or a colon, and then wrapped in double quotes
\* with its internal double quotes escaped.
C19_ValuesQuotedWhenNeeded ==
    Encoded =>
      /\ ApiLineStated
      /\ TagsLineStated
      /\ \A k \in DOMAIN Groups : \A r \in DOMAIN Groups[k][2] :
             RowStated(k, r, HeaderFields(toon[HeaderLine(k)]))
      /\ SchemaTypesStated

\* the values that go through escapeValue: the API string, the path, summary
\* and desc cells and the schema field types
EscapedFields == {"path", "summary", "desc"}

C19_EscapedValuesQuoted ==
    (Encoded /\ NoCommaInRawCells) =>
      /\ ApiLineStated
      /\ \A k \in DOMAIN Groups : \A r \in DOMAIN Groups[k][2] :
             CellsStated(k, r, EscapedFields)
      /\ SchemaTypesStated

\* a tag-list entry with a comma is written without quotes
C19_TagWrittenRaw ==
    /\ Encoded
    /\ \E i \in DOMAIN data.extracted_tags : HasSpecial(data.extracted_tags[i])
    /\ ~TagsLineStated

-----------------------------------------------------------------------------
(* Decoding the tree text: JSON.parse *)

JsonSpace == {Newline, "  ", " "}

RECURSIVE SkipSpace(_, _)
SkipSpace(text, i) ==
    IF i \in DOMAIN text /\ text[i] \in JsonSpace THEN SkipSpace(text, i + 1)
    ELSE i

\* the end of a text that is not JSON
Malformed(text) == [value |-> JsonString(<<>>), next |-> Len(text) + 1]

\* the characters of a string literal from position i, after its opening
\* quote, to its closing quote
RECURSIVE ReadString(_, _, _)
ReadString(text, i, acc) ==
    IF i > Len(text) THEN [value |-> acc, next |-> i]
    ELSE IF text[i] = Quote THEN [value |-> acc, next |-> i + 1]
    ELSE IF text[i] = Backslash /\ i < Len(text)
    THEN ReadString(text, i + 2,
                    Append(acc, IF text[i + 1] = "n" THEN Newline ELSE text[i + 1]))
    ELSE ReadString(text, i + 1, Append(acc, text[i]))

\* the members of a decoded object after one more is defined: a key that
\* is an array index goes before the other keys, in numeric order
DefineMember(members, key, value) ==
    LET named == [i \in DOMAIN members |-> <<textOf(members[i][1]), members[i]>>]
        after == ObjSet(named, textOf(key), <<key, value>>)
    IN  [i \in DOMAIN after |-> after[i][2]]

RECURSIVE ParseValue(_, _)
RECURSIVE ParseItems(_, _, _)
RECURSIVE ParseMembers(_, _, _)

ParseValue(text, from) ==
    LET i == SkipSpace(text, from)
    IN  IF i > Len(text) THEN Malformed(text)
        ELSE IF text[i] = Quote
        THEN LET string == ReadString(text, i + 1, <<>>)
             IN  [value |-> JsonString(string.value), next |-> string.next]
        ELSE IF text[i] = "[]" THEN [value |-> JsonArray(<<>>), next |-> i + 1]
        ELSE IF text[i] = "{}" THEN [value |-> JsonObject(<<>>), next |-> i + 1]
        ELSE IF text[i] = "[" THEN ParseItems(text, i + 1, <<>>)
        ELSE IF text[i] = "{" THEN ParseMembers(text, i + 1, <<>>)
        ELSE Malformed(text)

ParseItems(text, from, acc) ==
    LET i == SkipSpace(text, from)
    IN  IF i > Len(text) THEN Malformed(text)
        ELSE IF text[i] = "]" THEN [value |-> JsonArray(acc), next |-> i + 1]
        ELSE IF text[i] = Comma THEN ParseItems(text, i + 1, acc)
        ELSE LET item == ParseValue(text, i)
             IN  ParseItems(text, item.next, Append(acc, item.value))

ParseMembers(text, from, acc) ==
    LET i == SkipSpace(text, from)
    IN  IF i > Len(text) THEN Malformed(text)
        ELSE IF text[i] = "}" THEN [value |-> JsonObject(acc), next |-> i + 1]
        ELSE IF text[i] = Comma THEN ParseMembers(text, i + 1, acc)
        ELSE IF text[i] = Quote
        THEN LET key    == ReadString(text, i + 1, <<>>)
                 colon  == SkipSpace(text, key.next)
                 member == ParseValue(text, colon + 1)
             IN  IF colon \in DOMAIN text /\ text[colon] = Colon
                 THEN ParseMembers(text, member.next,
                                   DefineMember(acc, key.value, member.value))
                 ELSE Malformed(text)
        ELSE Malformed(text)

\* JSON.parse(text)
JSONparse(text) == ParseValue(text, 1).value

StrOf(value) == IF Has(value, "str") THEN value.str ELSE <<>>

ArrOf(value) == IF Has(value, "arr") THEN value.arr ELSE <<>>

ObjOf(value) == IF Has(value, "obj") THEN value.obj ELSE <<>>

MemberOfObject(value, key) ==
    IF ObjHas(ObjOf(value), <<key>>) THEN ObjGet(ObjOf(value), <<key>>)
    ELSE JsonString(<<>>)

\* a decoded endpoint: its members by name
DecodedEndpoint(value) ==
    [k \in {ObjOf(value)[i][1][1] : i \in DOMAIN ObjOf(value)} |->
        IF k = "params"
        THEN [j \in DOMAIN ArrOf(MemberOfObject(value, k)) |->
                 StrOf(ArrOf(MemberOfObject(value, k))[j])]
        ELSE StrOf(MemberOfObject(value, k))]

Decoded == JSONparse(json)

DecodedApi == StrOf(MemberOfObject(Decoded, "api"))

DecodedTags ==
    [i \in DOMAIN ArrOf(MemberOfObject(Decoded, "extracted_tags")) |->
        StrOf(ArrOf(MemberOfObject(Decoded, "extracted_tags"))[i])]

DecodedEndpoints ==
    LET groups == ObjOf(MemberOfObject(Decoded, "endpoints"))
    IN  [i \in DOMAIN groups |->
            << groups[i][1],
               [j \in DOMAIN ArrOf(groups[i][2]) |->
                   DecodedEndpoint(ArrOf(groups[i][2])[j])] >>]

DecodedSchemas ==
    LET named == ObjOf(MemberOfObject(Decoded, "schemas"))
    IN  [i \in DOMAIN named |->
            << named[i][1],
               [j \in DOMAIN ObjOf(named[i][2]) |->
                   << ObjOf(named[i][2])[j][1], StrOf(ObjOf(named[i][2])[j][2]) >>] >>]

\* C20: decoding the text produced by toJson for an ExtractionResult gives
\* back a result with the same API string, the same tag list in the same
\* order, the same endpoints per tag and the same schema mapping.
C20_TreeEncodingLossless ==
    json # <<>> =>
      /\ DecodedApi = data.api
      /\ DecodedTags = data.extracted_tags
      /\ DecodedEndpoints = data.endpoints
      /\ DecodedSchemas = data.schemas

\* a result of two tag groups and one of two schemas, with a summary that
\* holds a backslash and a line break, a parameter list and a quoted word,
\* has been encoded and decodes to itself
C20_Witness ==
    /\ json # <<>>
    /\ DecodedEndpoints = data.endpoints
    /\ Len(data.endpoints) > 0
    /\ \E r \in DOMAIN data.endpoints[1][2] :
         /\ Has(data.endpoints[1][2][r], "summary")
         /\ \E i \in DOMAIN data.endpoints[1][2][r].summary :
              data.endpoints[1][2][r].summary[i] = Backslash
         /\ Has(data.endpoints[1][2][r], "params")
    /\ \E r \in DOMAIN data.endpoints[1][2] :
         /\ Has(data.endpoints[1][2][r], "summary")
         /\ \E i \in DOMAIN data.endpoints[1][2][r].summary :
              data.endpoints[1][2][r].summary[i] = Quote

\* the same for a schema mapping whose names are array indices
C20_WitnessSchemas ==
    /\ json # <<>>
    /\ Len(data.schemas) = 2
    /\ data.schemas[1][1] = <<"9">>
    /\ DecodedSchemas = data.schemas

-----------------------------------------------------------------------------
(* Repeated calls: simplifySchema, toToon and toJson called a second time *)

\* a plausible slip: one set made once and shared by every call, as the
\* default of a parameter is where the function was ported from
defaultProcessed_Shared(left) == left

\* processed: Set<string> = new Set(): the default is evaluated at each call
\* that omits the argument, whatever a previous call left in its own set
defaultProcessed(left) == {}

\* definitions that are compositions or that compositions refer to
ComposedDefinitions ==
    { ObjectSchema(<< <<"x", StringProp>> >>),
      ObjectSchema(<< <<"x", SchemaRef("B")>>, <<"y", ArrayOf(SchemaRef("C"))>> >>),
      ObjectSchema(<< <<"y", [type |-> "integer", format |-> "int64"]>> >>) }
    \cup {[allOf |-> << SchemaRef(n) >>] : n \in DefNames \cup {Undefined}}
    \cup {[allOf |-> << SchemaRef(n), SchemaRef(m) >>] : n \in DefNames, m \in DefNames}
    \cup {[allOf |-> << SchemaRef(n), ObjectSchema(<< <<"x", [type |-> "integer"]>> >>) >>] :
             n \in DefNames}
    \cup {[allOf |-> << [allOf |-> << SchemaRef(n) >>], SchemaRef(n) >>] : n \in DefNames}

InitCompose ==
    /\ allSchemas \in [DefNames -> ComposedDefinitions]
    /\ schemaName = <<"A">>
    /\ pc = "simplifySchema"
    /\ NoOperation
    /\ NoDocument
    /\ deep = [isNull |-> TRUE, fields |-> <<>>, overflow |-> FALSE]
    /\ NoExtraction
    /\ NoOutputs

\* simplifySchema(allSchemas[schemaName], allSchemas) once more, after the
\* first call returned and left its processed set behind
SimplifySchemaAgain ==
    /\ pc = "simplified"
    /\ LET left == simplifySchemaWith(allSchemas[textOf(schemaName)], allSchemas,
                                      defaultProcessed({})).processed
       IN  again' = [simplified |->
                        simplifySchemaWith(allSchemas[textOf(schemaName)], allSchemas,
                                           defaultProcessed(left)).result]
    /\ pc' = "simplifiedAgain"
    /\ UNCHANGED <<opVars, swagger, tagsInfo, allSchemas, schemaName, deep, exVars>>
    /\ UNCHANGED <<nativeTypes, jsonString, parseResult, simplified, schemaNames, lang, dto, data, toon, json>>

\* toToon(data) once more
ToToonAgain ==
    /\ pc = "encode"
    /\ toon # <<>>
    /\ ~Has(again, "toon")
    /\ again' = again @@ ("toon" :> toToon(data))
    /\ UNCHANGED <<opVars, swagger, tagsInfo, allSchemas, schemaName, deep, exVars>>
    /\ UNCHANGED <<nativeTypes, jsonString, parseResult, simplified, schemaNames, lang, dto, data, toon, json, pc>>

\* toJson(data) once more
ToJsonAgain ==
    /\ pc = "encode"
    /\ json # <<>>
    /\ ~Has(again, "json")
    /\ again' = again @@ ("json" :> toJson(data))
    /\ UNCHANGED <<opVars, swagger, tagsInfo, allSchemas, schemaName, deep, exVars>>
    /\ UNCHANGED <<nativeTypes, jsonString, parseResult, simplified, schemaNames, lang, dto, data, toon, json, pc>>

InitRepeat == InitCompose \/ InitEncode

NextRepeat ==
    \/ SimplifySchema
    \/ SimplifySchemaAgain
    \/ ToToon
    \/ ToToonAgain
    \/ ToJson
    \/ ToJsonAgain

SpecRepeat == InitRepeat /\ [][NextRepeat]_vars

C21_WitnessEncoders ==
    /\ Has(again, "toon")
    /\ Has(again, "json")
    /\ again.toon = toon
    /\ again.json = json

-----------------------------------------------------------------------------
(* Later calls: every core function called after an extraction returned *)

\* a plausible slip: the result object kept at module level and filled again
\* by every call
newResult_ModuleLevel(earlier, doc, selected) ==
    [ fresh  |-> FALSE,
      object |-> [earlier EXCEPT !.api = apiLabel(doc.info),
                                 !.extracted_tags = selected] ]

\* const result: ExtractionResult = { api, extracted_tags, endpoints: {},
\* schemas: {} }: an object made by the call, whatever an earlier call returned
newResult(earlier, doc, selected) ==
    [ fresh  |-> TRUE,
      object |-> [ api            |-> apiLabel(doc.info),
                   extracted_tags |-> selected,
                   endpoints      |-> <<>>,
                   schemas        |-> <<>> ] ]

\* while (schemasToProcess.length > 0), to its end: the used names
RECURSIVE closureLoop(_, _, _)
closureLoop(used, stack, schemas) ==
    IF Len(stack) = 0 THEN used
    ELSE LET popped     == Last(stack)
             rest       == SubSeq(stack, 1, Len(stack) - 1)
             nestedRefs == IF popped \in DOMAIN schemas
                           THEN findAllSchemaRefs(schemas[popped], <<>>)
                           ELSE <<>>
             after      == refsLoop(nestedRefs, 1, [used |-> used, stack |-> rest])
         IN  closureLoop(after.used, after.stack, schemas)

\* extractByTags(swagger, selectedTags, tagsInfo) from entry to return, the
\* result object being the one given
extractByTags(doc, selected, info, object) ==
    LET copied == selectedLoop(selected, 1, info,
                               [endpoints |-> object.endpoints, used |-> <<>>])
        used   == closureLoop(copied.used, copied.used, getSchemas(doc))
    IN  [ api            |-> object.api,
          extracted_tags |-> object.extracted_tags,
          endpoints      |-> copied.endpoints,
          schemas        |-> simplifyLoop(sort(used), 1, getSchemas(doc),
                                          object.schemas) ]

\* documents: every definition of A over one chain B -> C, every path list
LaterDocuments ==
    {d \in ClosureDocuments :
        /\ d.components.schemas["B"] = ObjectSchema(<< <<"x", SchemaRef("C")>> >>)
        /\ d.components.schemas["C"] = ObjectSchema(<< <<"x", StringProp>> >>)}

InitLater ==
    /\ swagger \in LaterDocuments
    /\ tagsInfo = <<>>
    /\ pc = "analyzeTags"
    /\ NoOperation
    /\ NoSchemas
    /\ NoDeep
    /\ NoExtraction
    /\ NoOutputs

\* analyzeTags(swagger) once more, after an extraction returned
AnalyzeTagsAgain ==
    /\ pc = "returned"
    /\ ~Has(again, "tagsInfo")
    /\ again' = again @@ ("tagsInfo" :> analyzeTags(swagger))
    /\ UNCHANGED <<opVars, swagger, tagsInfo, allSchemas, schemaName, deep, exVars>>
    /\ UNCHANGED <<nativeTypes, jsonString, parseResult, simplified, schemaNames, lang, dto, data, toon, json, pc>>

\* extractByTags(swagger, selected, tagsInfo) once more; a result object that
\* is not made by the call is the earlier one, which then holds what the call
\* wrote
ExtractByTagsAgain ==
    /\ pc = "returned"
    /\ ~Has(again, "result")
    /\ \E selected \in TagSelections :
        LET start  == newResult(result, swagger, selected)
            second == extractByTags(swagger, selected, tagsInfo, start.object)
        IN  /\ again' = again @@ ("result" :> second)
            /\ result' = IF start.fresh THEN result ELSE second
    /\ UNCHANGED <<opVars, swagger, tagsInfo, allSchemas, schemaName, deep>>
    /\ UNCHANGED <<selectedTags, usedSchemas, schemasToProcess>>
    /\ UNCHANGED <<nativeTypes, jsonString, parseResult, simplified, schemaNames, lang, dto, data, toon, json, pc>>

InitCore == InitLater \/ InitCompose \/ InitDto \/ InitEncode

NextCore ==
    \/ AnalyzeTags
    \/ ExtractEndpoints
    \/ ProcessSchema
    \/ SimplifySchemas
    \/ AnalyzeTagsAgain
    \/ ExtractByTagsAgain
    \/ GetDeepSchemaFields
    \/ SimplifySchema
    \/ SimplifySchemaAgain
    \/ GenerateDtos
    \/ ToToon
    \/ ToJson

SpecCore == InitCore /\ [][NextCore]_vars

\* an extraction has returned
Returned == pc \in {"returned", "resolved"}

-----------------------------------------------------------------------------
(* parser.ts: parseSwagger *)
(* A JSON value is tagged with its kind; an object is the record of the    *)
(* members read here, a member it lacks reading as undefined.              *)

JsUndefined == [t |-> "undefined"]

JsNull == [t |-> "null"]

JsString(text) == [t |-> "string", v |-> text]

JsNumber(n) == [t |-> "number", n |-> n]

JsArray == [t |-> "array"]

JsObject(members) == [t |-> "object", members |-> members]

\* !!value
truthy(value) ==
    /\ value.t \notin {"undefined", "null"}
    /\ value.t = "string" => value.v # ""
    /\ value.t = "number" => value.n # 0

\* value[key] where value is neither null nor undefined
member(value, key) ==
    IF value.t = "object" /\ key \in DOMAIN value.members
    THEN value.members[key]
    ELSE JsUndefined

\* reading a member of null or undefined throws a TypeError
throwsOnRead(value) == value.t \in {"undefined", "null"}

failure(reason) == [success |-> FALSE, error |-> reason]

\* the body of the try block after JSON.parse returned a value that members
\* can be read of
checked(parsed) ==
    IF ~truthy(member(parsed, "info")) THEN failure("Missing 'info' section")
    ELSE IF ~truthy(member(member(parsed, "info"), "title"))
    THEN failure("Missing 'info.title'")
    ELSE IF ~truthy(member(parsed, "paths")) THEN failure("Missing 'paths' section")
    ELSE IF ~truthy(member(parsed, "openapi")) /\ ~truthy(member(parsed, "swagger"))
    THEN failure("Not a valid OpenAPI/Swagger document")
    ELSE [success |-> TRUE, data |-> parsed]

\* parseSwagger(jsonString): a SyntaxError of JSON.parse and a TypeError of
\* parsed.info are both caught
parseSwagger(text) ==
    IF ~text.valid \/ throwsOnRead(text.value) THEN failure("Invalid JSON format")
    ELSE checked(text.value)

\* the identity sections a text can hold
InfoValues ==
    { JsUndefined, JsNull, JsString("Petstore"), JsObject(<<>>) }
    \cup {JsObject([title |-> JsString(title)]) : title \in {"", "Petstore"}}
    \cup {JsObject([title |-> JsString(title), version |-> JsString(version)]) :
             title \in {"", "Petstore"}, version \in {"", "1.0.0"}}
    \cup {JsObject([title |-> JsNumber(n), version |-> JsString("1.0.0")]) :
             n \in {0, 1}}

PathsValues == {JsUndefined, JsNull, JsObject(<<>>), JsArray}

MarkerValues == {JsUndefined, JsString(""), JsString("3.0.3")}

\* the texts: not JSON; JSON that is no object; objects with every
\* combination of the members parseSwagger reads
JsonTexts ==
    { [valid |-> FALSE, value |-> JsUndefined] }
    \cup {[valid |-> TRUE, value |-> v] :
             v \in {JsNull, JsNumber(5), JsString("swagger"), JsArray}}
    \cup {[valid |-> TRUE,
           value |-> JsObject([info |-> i, paths |-> p, openapi |-> o, swagger |-> w])] :
             i \in InfoValues, p \in PathsValues, o \in MarkerValues,
             w \in {JsUndefined, JsString("2.0")}}

InitParse ==
    /\ jsonString \in JsonTexts
    /\ parseResult = <<>>
    /\ nativeTypes = <<>>
    /\ pc = "parseSwagger"
    /\ NoOperation
    /\ NoDocument
    /\ NoSchemas
    /\ NoDeep
    /\ NoExtraction
    /\ simplified = <<>>
    /\ schemaNames = <<>>
    /\ lang = ""
    /\ dto = <<>>
    /\ data = <<>>
    /\ toon = <<>>
    /\ json = <<>>
    /\ again = <<>>

\* parseSwagger(jsonString): every path of it ends in a return statement
ParseSwagger ==
    /\ pc = "parseSwagger"
    /\ parseResult' = parseSwagger(jsonString)
    /\ pc' = "parsed"
    /\ UNCHANGED <<opVars, swagger, tagsInfo, allSchemas, schemaName, deep, exVars>>
    /\ UNCHANGED <<nativeTypes, jsonString, simplified, schemaNames, lang, dto, data, toon, json, again>>

NextParse == ParseSwagger

SpecParse == InitParse /\ [][NextParse]_vars

\* the text is a JSON value that has the member
Present(value, key) == member(value, key) # JsUndefined

\* an identity section with title and version, a paths section, a marker
HasIdentity ==
    /\ jsonString.valid
    /\ Present(jsonString.value, "info")
    /\ Present(member(jsonString.value, "info"), "title")
    /\ Present(member(jsonString.value, "info"), "version")

HasTitle ==
    /\ jsonString.valid
    /\ Present(jsonString.value, "info")
    /\ Present(member(jsonString.value, "info"), "title")

HasPathsAndMarker ==
    /\ jsonString.valid
    /\ Present(jsonString.value, "paths")
    /\ \/ Present(jsonString.value, "openapi")
       \/ Present(jsonString.value, "swagger")

\* a failure value: a reason and no document
IsFailure ==
    /\ parseResult.success = FALSE
    /\ Has(parseResult, "error")
    /\ parseResult.error # ""
    /\ ~Has(parseResult, "data")

\* C23: parseSwagger accepts a document only if it has an identity section
\* with title and version, a paths section and an OpenAPI- or Swagger-version
\* marker; every other input is returned as a failure value carrying a
\* reason and no document, never as an exception and never as a success.
C23_AcceptsOnlyValidated ==
    pc = "parsed" =>
        IF HasIdentity /\ HasPathsAndMarker
        THEN parseResult.success \/ IsFailure
        ELSE IsFailure

\* the same with the version left out of what is required
C23_AcceptsOnlyTitled ==
    pc = "parsed" =>
        IF HasTitle /\ HasPathsAndMarker
        THEN (parseResult.success /\ parseResult.data = jsonString.value) \/ IsFailure
        ELSE IsFailure

\* a document without a version is accepted
C23_AcceptedWithoutVersion ==
    /\ pc = "parsed"
    /\ parseResult.success
    /\ ~HasIdentity

-----------------------------------------------------------------------------
(* Extractor: termination of the closure loop *)

\* definitions that refer to themselves and to each other, directly, in a
\* composition and through two properties
CyclicDefinitions ==
    { ObjectSchema(<< <<"x", StringProp>> >>),
      ObjectSchema(<< <<"x", SchemaRef("A")>> >>),
      ObjectSchema(<< <<"x", ArrayOf(SchemaRef("B"))>> >>),
      ObjectSchema(<< <<"x", SchemaRef("B")>>, <<"y", SchemaRef("C")>> >>),
      [allOf |-> << SchemaRef("C"), ObjectSchema(<< <<"z", SchemaRef("A")>> >>) >>] }

CyclicDocuments ==
    {[ info       |-> [title |-> "Petstore", version |-> "1.0.0"],
       paths      |-> ps,
       components |-> [schemas |-> s] ] :
         ps \in ClosurePaths, s \in [DefNames -> CyclicDefinitions]}

InitClosure ==
    /\ swagger \in CyclicDocuments
    /\ tagsInfo = <<>>
    /\ pc = "analyzeTags"
    /\ NoOperation
    /\ NoSchemas
    /\ NoDeep
    /\ NoExtraction
    /\ NoOutputs

SpecClosure == InitClosure /\ [][NextExtract]_vars

\* the names the document can ever give to the closure: the names it
\* defines, the names its definitions refer to, and the names in use
DocumentNames ==
    (DOMAIN getSchemas(swagger))
    \cup UNION {ReferencedNames(getSchemas(swagger)[n]) : n \in DOMAIN getSchemas(swagger)}
    \cup Range(usedSchemas)

\* the iterations the loop can still make: one per name on the stack and one
\* per name not used yet
IterationsLeft ==
    Cardinality(DocumentNames \ Range(usedSchemas)) + Len(schemasToProcess)

StackHeldOnce ==
    /\ Distinct(schemasToProcess)
    /\ Distinct(usedSchemas)
    /\ Range(schemasToProcess) \subseteq Range(usedSchemas)
    /\ IterationsLeft \in 0..Cardinality(DocumentNames)
    /\ pc = "returned" => Len(schemasToProcess) = 0

\* C24: extractByTags terminates for every document, self- and mutually
\* referential schema graphs included: the work stack holds each name at most
\* once and only names of the used set, an iteration pushes only names it
\* adds to the used set, so that every iteration uses up one of the at most
\* as many iterations as there are distinct names (the count of iterations
\* left decreases by one at each and is never negative), and the loop is
\* left, with an empty stack, by the step that returns.
C24_ClosureTerminates ==
    /\ []StackHeldOnce
    /\ [][ (pc = "closure" /\ pc' = "closure") =>
              /\ IterationsLeft' = IterationsLeft - 1
              /\ \A n \in Range(schemasToProcess') \ Range(schemasToProcess) :
                     n \notin Range(usedSchemas) ]_vars
    /\ [][ (pc = "closure" /\ pc' # "closure") =>
              Len(schemasToProcess) = 0 /\ pc' = "returned" ]_vars

\* the closure of a self-referential definition that refers to a second one
\* referring back has been computed, and the call returned
C24_Witness ==
    /\ pc = "returned"
    /\ Len(schemasToProcess) = 0
    /\ "A" \in Range(usedSchemas)
    /\ "A" \in DOMAIN allSchemas
    /\ "A" \in ReferencedNames(allSchemas["A"])
    /\ \E n \in Range(usedSchemas) \ {"A"} :
         /\ n \in DOMAIN allSchemas
         /\ n \in ReferencedNames(allSchemas["A"])
         /\ "A" \in ReferencedNames(allSchemas[n])
         /\ Len(usedSchemas) = Cardinality(DefNames)

-----------------------------------------------------------------------------
(* Shallow Flattener: compositions *)

SpecCompose == InitCompose /\ [][NextSimplify]_vars

IsComposition(def) == Has(def, "allOf")

\* the definition a member of a composition stands for, if it has one
MemberDefined(m) ==
    IF Has(m, "ref") THEN Last(m.ref) \in DOMAIN allSchemas ELSE TRUE

MemberDefinition(m) == IF Has(m, "ref") THEN allSchemas[Last(m.ref)] ELSE m

\* mappings merged in order, a later one overriding an earlier one
RECURSIVE MergedFrom(_, _)
MergedFrom(mappings, k) ==
    IF k = 0 THEN <<>>
    ELSE LET before == MergedFrom(mappings, k - 1)
         IN  [i \in DOMAIN before |->
                 IF ObjHas(mappings[k], before[i][1])
                 THEN <<before[i][1], ObjGet(mappings[k], before[i][1])>>
                 ELSE before[i]]
             \o SelectSeq(mappings[k], LAMBDA entry : ~ObjHas(before, entry[1]))

Merged(mappings) == MergedFrom(mappings, Len(mappings))

\* the fields of each member of the composition given, flattened on its own
FieldsOfMembers ==
    LET members == SelectSeq(GivenDefinition.allOf, MemberDefined)
    IN  [k \in DOMAIN members |->
            simplifySchema(MemberDefinition(members[k]), allSchemas)]

\* C25 as stated: simplifySchema returns on composition cycles, and for a
\* composition the merged result is the union of the fields of its members,
\* a later member overriding an earlier one on a shared field name.
C25_LaterMemberOverrides ==
    (pc = "simplified" /\ IsComposition(GivenDefinition)) =>
        simplified = Merged(FieldsOfMembers)

\* the fields contributed during one call, in the order of the traversal: a
\* referenced member contributes the first time the call meets its name, also
\* inside another member, and nothing after that
RECURSIVE Contributed(_, _)
RECURSIVE ContributedBy(_, _, _)
Contributed(def, met) ==
    IF IsComposition(def) THEN ContributedBy(def.allOf, 1, [fields |-> <<>>, met |-> met])
    ELSE [ fields |-> << IF Has(def, "properties")
                         THEN [i \in DOMAIN def.properties |->
                                 << def.properties[i][1],
                                    propertyLabel(def.properties[i][2]) >>]
                         ELSE <<>> >>,
           met    |-> met ]

ContributedBy(members, k, acc) ==
    IF k > Len(members) THEN acc
    ELSE IF Has(members[k], "ref")
    THEN IF Last(members[k].ref) \in DOMAIN allSchemas
              /\ Last(members[k].ref) \notin acc.met
         THEN LET inner == Contributed(allSchemas[Last(members[k].ref)],
                                       acc.met \cup {Last(members[k].ref)})
              IN  ContributedBy(members, k + 1,
                      [fields |-> acc.fields \o inner.fields, met |-> inner.met])
         ELSE ContributedBy(members, k + 1, acc)
    ELSE LET inner == Contributed(members[k], acc.met)
         IN  ContributedBy(members, k + 1,
                 [fields |-> acc.fields \o inner.fields, met |-> inner.met])

\* C25: simplifySchema returns on composition cycles; within one call each
\* referenced composition member is flattened at most once, the first time
\* its name is met, and the result is the union of the fields of the members
\* flattened, one flattened later overriding one flattened earlier on a
\* shared field name.
C25_FlattenedMembersMerged ==
    pc = "simplified" =>
        simplified = Merged(Contributed(GivenDefinition, {}).fields)

\* A composes B and C, B composes C and overrides its field x: C is
\* flattened inside B and not again after it, so B's x stays
C25_Witness ==
    /\ pc = "simplified"
    /\ allSchemas["A"] = [allOf |-> << SchemaRef("B"), SchemaRef("C") >>]
    /\ allSchemas["B"] = [allOf |-> << SchemaRef("C"),
                                       ObjectSchema(<< <<"x", [type |-> "integer"]>> >>) >>]
    /\ allSchemas["C"] = ObjectSchema(<< <<"x", StringProp>> >>)
    /\ simplified = << <<"x", <<"integer">> >> >>

\* A composes B and B composes A and C: the call returned C's fields
C25_WitnessCycle ==
    /\ pc = "simplified"
    /\ allSchemas["A"] = [allOf |-> << SchemaRef("B") >>]
    /\ allSchemas["B"] = [allOf |-> << SchemaRef("A"), SchemaRef("C") >>]
    /\ allSchemas["C"] = ObjectSchema(<< <<"x", StringProp>> >>)
    /\ simplified # <<>>

-----------------------------------------------------------------------------
(* Both flatteners on one definition: simplifySchema, then resolveSchemaDeep *)

\* definitions in the shapes the two flatteners tell apart: every property
\* shape alone, a reference next to another property, and compositions of
\* references and of inline members
BothDefinitions ==
    {ObjectSchema(<< <<"x", p>> >>) : p \in FlatProps}
    \cup {ObjectSchema(<< <<"x", SchemaRef(n)>>, <<"y", ArrayOf(SchemaRef(n))>> >>) :
             n \in DefNames}
    \cup {[allOf |-> << SchemaRef(n), SchemaRef(m) >>] : n \in DefNames, m \in DefNames}
    \cup {[allOf |-> << ObjectSchema(<< <<"z", SchemaRef(n)>> >>), SchemaRef(m) >>] :
             n \in DefNames, m \in DefNames}

InitBoth ==
    /\ allSchemas \in [DefNames -> BothDefinitions]
    /\ schemaName = <<"A">>
    /\ pc = "simplifySchema"
    /\ NoOperation
    /\ NoDocument
    /\ deep = [isNull |-> TRUE, fields |-> <<>>, overflow |-> FALSE]
    /\ NoExtraction
    /\ NoOutputs

\* resolveSchemaDeep(schemaName, allSchemas) for the name whose definition
\* simplifySchema was given
ResolveSimplified ==
    /\ pc = "simplified"
    /\ deep' = resolveSchemaDeep(schemaName, allSchemas)
    /\ pc' = "resolved"
    /\ UNCHANGED <<allSchemas, schemaName>>
    /\ UNCHANGED <<opVars, swagger, tagsInfo, exVars, outVars>>

NextBoth == SimplifySchema \/ ResolveSimplified

SpecBoth == InitBoth /\ [][NextBoth]_vars

\* the top level of the deep result, as a mapping of field name to label
TopLevelLabels == [k \in DOMAIN deep.fields |->
                      <<deep.fields[k][1], deep.fields[k][2].type>>]

\* C26: for a name the document defines, the top level of resolveSchemaDeep
\* has exactly the field names of simplifySchema of the definition, each with
\* the label the shallow result gives it, compositions included.
C26_DeepTopLevelIsShallow ==
    pc = "resolved" =>
        /\ ~deep.isNull
        /\ Range(TopLevelLabels) = Range(simplified)

\* a property of type array without items: the shallow flattener labels it
\* "array" before it looks at enum or format, the deep one after
BareArray(p) == Has(p, "type") /\ p.type = "array" /\ ~Has(p, "items")

\* the two flatteners agree on a definition that is not a composition and
\* has no array without items
C26_PlainDefinitionsAgree ==
    (/\ pc = "resolved"
     /\ ~IsComposition(GivenDefinition)
     /\ \A i \in DOMAIN DeclaredProperties : ~BareArray(DeclaredProperties[i][2]))
        => TopLevelLabels = simplified

\* a composition of an inline member that refers to B and of B itself: the
\* shallow result has the fields of B, the deep top level has not
C26_MemberDroppedAfterExpansion ==
    /\ pc = "resolved"
    /\ GivenDefinition = [allOf |-> << ObjectSchema(<< <<"z", SchemaRef("B")>> >>),
                                       SchemaRef("B") >>]
    /\ allSchemas["B"] = ObjectSchema(<< <<"x", StringProp>> >>)
    /\ simplified = << <<"z", <<"B">> >>, <<"x", <<"string">> >> >>
    /\ TopLevelLabels = << <<"z", <<"B">> >> >>

-----------------------------------------------------------------------------
(* dto-generator.ts: mapType on the labels simplifySchema emits *)

\* the definition of a property, in every shape that gives a label of its own
LabelledProps ==
    FlatProps
    \cup { [type |-> "number"], [type |-> "boolean"], [type |-> "object"],
           [type |-> "integer", format |-> "int32"],
           [type |-> "number", format |-> "float"],
           [type |-> "number", format |-> "double"],
           [type |-> "string", format |-> "email"],
           [type |-> "string", format |-> "date"],
           ArrayOf([type |-> "integer"]),
           ArrayOf(ArrayOf(StringProp)) }

InitMapType ==
    /\ allSchemas \in {[n \in {"A", "B"} |->
                          IF n = "A" THEN ObjectSchema(<< <<"x", p>> >>)
                          ELSE ObjectSchema(<< <<"x", StringProp>> >>)] :
                       p \in LabelledProps}
    /\ schemaName = <<"A">>
    /\ lang \in Range(DTO_LANGUAGES)
    /\ pc = "simplifySchema"
    /\ NoOperation
    /\ NoDocument
    /\ deep = [isNull |-> TRUE, fields |-> <<>>, overflow |-> FALSE]
    /\ NoExtraction
    /\ simplified = <<>>
    /\ schemaNames = <<>>
    /\ dto = <<>>
    /\ nativeTypes = <<>>
    /\ data = <<>>
    /\ toon = <<>>
    /\ json = <<>>
    /\ again = <<>>
    /\ jsonString = <<>>
    /\ parseResult = <<>>

\* mapType(type, lang) for each [field, type] of Object.entries(fields), as
\* every generator of a language calls it
MapType ==
    /\ pc = "simplified"
    /\ nativeTypes' = [i \in DOMAIN simplified |->
                          <<simplified[i][1], mapType(simplified[i][2], lang)>>]
    /\ pc' = "mapped"
    /\ UNCHANGED <<opVars, swagger, tagsInfo, allSchemas, schemaName, deep, exVars>>
    /\ UNCHANGED <<jsonString, parseResult, simplified, schemaNames, lang, dto, data,
                   toon, json, again>>

NextMapType == SimplifySchema \/ MapType

SpecMapType == InitMapType /\ [][NextMapType]_vars

\* the native types the tables of a language hold
TableTypes(language) ==
    {typeMap[t][language] : t \in DOMAIN typeMap}
    \cup {dateMap[language], uuidMap[language], int64Map[language], floatMap[language]}

\* what the array form of a language wraps, <<>> for a type not of that form
ArrayInner(type, language) ==
    CASE language = "typescript" ->
            IF Len(type) >= 2 /\ Last(type) = "[]"
            THEN SubSeq(type, 1, Len(type) - 1) ELSE <<>>
      [] language = "go" ->
            IF Len(type) >= 2 /\ Head(type) = "[]" THEN Tail(type) ELSE <<>>
      [] language = "python" ->
            IF Len(type) >= 3 /\ Head(type) = "list[" /\ Last(type) = "]"
            THEN SubSeq(type, 2, Len(type) - 1) ELSE <<>>
      [] OTHER ->
            IF Len(type) >= 3 /\ Head(type) = "List<" /\ Last(type) = ">"
            THEN SubSeq(type, 2, Len(type) - 1) ELSE <<>>

\* the label of a direct reference: the name of a definition
IsReferenceName(label) == Len(label) = 1 /\ label[1] \in DefNames \cup {Undefined}

\* a type of the tables of the language, or the array form of the language
\* around such a type or around a reference name
RECURSIVE IsNativeType(_, _)
IsNativeType(type, language) ==
    \/ Len(type) = 1 /\ type[1] \in TableTypes(language)
    \/ /\ ArrayInner(type, language) # <<>>
       /\ \/ IsReferenceName(ArrayInner(type, language))
          \/ IsNativeType(ArrayInner(type, language), language)

\* C27: for each of the seven languages and every label simplifySchema can
\* emit, mapType returns a native type taken from the tables of the language
\* (scalar, array form, object map, any, format override); only a reference
\* name is returned unchanged.
C27_MapTypeTotal ==
    pc = "mapped" =>
        \A i \in DOMAIN simplified :
            IF IsReferenceName(simplified[i][2])
            THEN nativeTypes[i][2] = simplified[i][2]
            ELSE IsNativeType(nativeTypes[i][2], lang)

\* labels mapType has no table entry for: the word "array", which
\* simplifySchema emits for an array without items and for the items of an
\* array of arrays, and an enumeration in TypeScript, kept for
\* generateTypeScript to render as a union
OutsideTables(label) ==
    \/ Head(label) = "array"
    \/ lang = "typescript" /\ Head(label) = "enum("

\* every other label is mapped to a native type of the language
C27_MapTypeTotalButArrayWord ==
    pc = "mapped" =>
        \A i \in DOMAIN simplified :
            ~OutsideTables(simplified[i][2]) =>
                IF IsReferenceName(simplified[i][2])
                THEN nativeTypes[i][2] = simplified[i][2]
                ELSE IsNativeType(nativeTypes[i][2], lang)

\* an array without items has been mapped for Java: its label is returned as
\* it is
C27_ArrayWordUnchanged ==
    /\ pc = "mapped"
    /\ lang = "java"
    /\ DeclaredProperties = << <<"x", [type |-> "array"]>> >>
    /\ simplified = << <<"x", <<"array">> >> >>
    /\ nativeTypes = << <<"x", <<"array">> >> >>

-----------------------------------------------------------------------------
(* Tag Analyzer: the index *)

\* the sum of the counts of a bucket
RECURSIVE SumOver(_, _)
SumOver(counts, keys) ==
    IF keys = {} THEN 0
    ELSE LET m == CHOOSE m \in keys : TRUE
         IN  counts[m] + SumOver(counts, keys \ {m})

\* the tags of the operations analyzeTags visits, in the order it visits
\* them: paths in document order, methods in the order of HTTP_METHODS, tags
\* in the order of the operation
RECURSIVE SeenFrom(_, _)
SeenFrom(i, j) ==
    IF i > Len(swagger.paths) THEN <<>>
    ELSE IF j > Len(HTTP_METHODS) THEN SeenFrom(i + 1, 1)
    ELSE IF HTTP_METHODS[j] \in DOMAIN swagger.paths[i][2]
    THEN (LET op == swagger.paths[i][2][HTTP_METHODS[j]]
          IN  IF "tags" \in DOMAIN op /\ op.tags # <<>> THEN op.tags
              ELSE <<"Untagged">>)
         \o SeenFrom(i, j + 1)
    ELSE SeenFrom(i, j + 1)

\* each element kept where it occurs first
RECURSIVE FirstOccurrences(_, _)
FirstOccurrences(s, kept) ==
    IF s = <<>> THEN kept
    ELSE FirstOccurrences(Tail(s),
            IF Head(s) \in Range(kept) THEN kept ELSE Append(kept, Head(s)))

\* C28: in the index analyzeTags returns, every bucket has total = number of
\* its endpoints = sum of its per-method counts, total >= 1, each per-method
\* count equal to the number of its endpoints with that method, and the
\* buckets are in the order their tags were first seen.
C28_IndexInvariants ==
    pc = "analyzed" =>
        /\ \A i \in DOMAIN tagsInfo :
              LET bucket == tagsInfo[i][2]
              IN  /\ bucket.name = tagsInfo[i][1]
                  /\ bucket.total = Len(bucket.paths)
                  /\ bucket.total = SumOver(bucket.methods, DOMAIN bucket.methods)
                  /\ bucket.total >= 1
                  /\ \A k \in DOMAIN bucket.paths :
                        bucket.paths[k].method \in DOMAIN bucket.methods
                  /\ \A m \in DOMAIN bucket.methods :
                        bucket.methods[m] =
                            Cardinality({k \in DOMAIN bucket.paths :
                                            bucket.paths[k].method = m})
        /\ ObjKeys(tagsInfo) = FirstOccurrences(SeenFrom(1, 1), <<>>)

\* two paths have been analysed: the first gives store and pets one POST
\* each, the second adds a GET to pets, whose bucket stays second
C28_Witness ==
    /\ pc = "analyzed"
    /\ Len(swagger.paths) = 2
    /\ ObjKeys(tagsInfo) = <<"store", "pets">>
    /\ MapGet(tagsInfo, "pets").total = 2
    /\ MapGet(tagsInfo, "pets").methods = [m \in {"GET", "POST"} |-> 1]
    /\ MapGet(tagsInfo, "store").total = 1

-----------------------------------------------------------------------------
(* dto-generator.ts: collectUsedSchemas, findRefs *)

RECURSIVE findRefs(_, _, _)
RECURSIVE findRefsIn(_, _, _, _)
RECURSIVE findRefsInProperties(_, _, _, _)

\* findRefs(schema, allSchemas, used): the Set after the call
findRefs(schema, schemas, used) ==
    LET own   == IF /\ Has(schema, "ref")
                    /\ lastSegment(schema.ref) # ""
                    /\ lastSegment(schema.ref) \in DOMAIN schemas
                 THEN SetAdd(used, lastSegment(schema.ref))
                 ELSE used
        items == IF Has(schema, "items") THEN findRefs(schema.items, schemas, own)
                 ELSE own
        props == IF Has(schema, "properties")
                 THEN findRefsInProperties(schema.properties, 1, schemas, items)
                 ELSE items
        all   == IF Has(schema, "allOf") THEN findRefsIn(schema.allOf, 1, schemas, props)
                 ELSE props
        one   == IF Has(schema, "oneOf") THEN findRefsIn(schema.oneOf, 1, schemas, all)
                 ELSE all
    IN  IF Has(schema, "anyOf") THEN findRefsIn(schema.anyOf, 1, schemas, one) ELSE one

\* for (const item of schema.allOf), from item k on (oneOf and anyOf alike)
findRefsIn(array, k, schemas, used) ==
    IF k > Len(array) THEN used
    ELSE findRefsIn(array, k + 1, schemas, findRefs(array[k], schemas, used))

\* for (const prop of Object.values(schema.properties)), from property k on
findRefsInProperties(properties, k, schemas, used) ==
    IF k > Len(properties) THEN used
    ELSE findRefsInProperties(properties, k + 1, schemas,
                              findRefs(properties[k][2], schemas, used))

\* the two `if (allSchemas[clean]) used.add(clean)` of an endpoint
seedUsed(used, ep, schemas) ==
    LET clean(label) == textOf(removeBrackets(label))
        body == IF Has(ep, "body") /\ ep.body # Null /\ ep.body # <<>>
                   /\ clean(ep.body) \in DOMAIN schemas
                THEN SetAdd(used, clean(ep.body)) ELSE used
    IN  IF Has(ep, "response") /\ ep.response # Null /\ ep.response # <<>>
           /\ clean(ep.response) \in DOMAIN schemas
        THEN SetAdd(body, clean(ep.response)) ELSE body

\* for (const eps of Object.values(endpoints)) for (const ep of eps), from
\* endpoint k of list i on
RECURSIVE seedsLoop(_, _, _, _, _)
seedsLoop(endpoints, i, k, schemas, used) ==
    IF i > Len(endpoints) THEN used
    ELSE IF k > Len(endpoints[i][2]) THEN seedsLoop(endpoints, i + 1, 1, schemas, used)
    ELSE seedsLoop(endpoints, i, k + 1, schemas,
                   seedUsed(used, endpoints[i][2][k], schemas))

\* for (const name of Array.from(used)), from name k of the copy on
RECURSIVE namesLoop(_, _, _, _)
namesLoop(names, k, schemas, used) ==
    IF k > Len(names) THEN used
    ELSE IF names[k] \notin DOMAIN schemas THEN namesLoop(names, k + 1, schemas, used)
    ELSE namesLoop(names, k + 1, schemas, findRefs(schemas[names[k]], schemas, used))

\* while (used.size !== prevSize)
RECURSIVE whileGrowing(_, _, _)
whileGrowing(used, prevSize, schemas) ==
    IF Len(used) = prevSize THEN used
    ELSE whileGrowing(namesLoop(used, 1, schemas, used), Len(used), schemas)

collectUsedSchemas(endpoints, schemas) ==
    sort(whileGrowing(seedsLoop(endpoints, 1, 1, schemas, <<>>), 0, schemas))

\* collectUsedSchemas(result.endpoints, allSchemas) on what extractByTags
\* returned, as the export of DTOs calls it
CollectUsedSchemas ==
    /\ pc = "returned"
    /\ schemaNames' = collectUsedSchemas(result.endpoints, allSchemas)
    /\ pc' = "collected"
    /\ UNCHANGED <<opVars, swagger, tagsInfo, allSchemas, schemaName, deep, exVars>>
    /\ UNCHANGED <<nativeTypes, jsonString, parseResult, simplified, lang, dto, data,
                   toon, json, again>>

NextCollect == NextExtract \/ CollectUsedSchemas

SpecCollect == InitExtract /\ [][NextCollect]_vars

\* C29: for the same document and endpoints, the sorted list of names
\* collectUsedSchemas returns is the list of keys of the schema mapping
\* extractByTags returned, whatever way the definitions nest references.
C29_ClosuresAgree ==
    pc = "collected" => schemaNames = SchemaKeys

\* the two agree where every reference of the definitions is written in one
\* of the two local forms and at most one name is a string of digits
C29_ClosuresAgreeLocalRefs ==
    (/\ pc = "collected"
     /\ \A n \in DOMAIN allSchemas : LocalRefsOnly(allSchemas[n])
     /\ Cardinality({k \in DOMAIN allSchemas : IsArrayIndex(k)}) <= 1)
        => schemaNames = SchemaKeys

\* A refers to B by "models.json#/B": collectUsedSchemas lists B, the schema
\* mapping of extractByTags has no key B
C29_ExternalFormCollected ==
    /\ pc = "collected"
    /\ "A" \in DOMAIN allSchemas
    /\ allSchemas["A"] = ObjectSchema(<< <<"x", ExternalRef("B")>> >>)
    /\ SchemaKeys = <<"A">>
    /\ schemaNames = <<"A", "B">>

-----------------------------------------------------------------------------
(* Extractor: the labels of the schema mapping *)

\* the name a label of the form <Name> or <Name>[] refers to, "" for a
\* label of another form
NameOfLabel(label) ==
    IF Len(label) = 1 \/ (Len(label) = 2 /\ label[2] = "[]") THEN label[1] ELSE ""

\* the names of the document's definitions that the labels of the schema
\* mapping refer to
LabelledNames ==
    UNION {{NameOfLabel(result.schemas[i][2][k][2]) :
               k \in DOMAIN result.schemas[i][2]} : i \in DOMAIN result.schemas}
    \cap DOMAIN allSchemas

\* C30: when extractByTags has returned, every name of a definition of the
\* document that a field label <Name> or <Name>[] of its schema mapping
\* refers to is a key of the schema mapping.
C30_ClosedUnderLabels ==
    pc = "returned" => LabelledNames \subseteq Range(SchemaKeys)

\* the mapping is closed where every reference of the definitions is written
\* in one of the two local forms
C30_ClosedUnderLabelsLocalRefs ==
    (pc = "returned" /\ \A n \in DOMAIN allSchemas : LocalRefsOnly(allSchemas[n]))
        => LabelledNames \subseteq Range(SchemaKeys)

\* A refers to B by "models.json#/B": the mapping labels A.x with B and has
\* no key B
C30_LabelWithoutKey ==
    /\ pc = "returned"
    /\ "B" \in DOMAIN allSchemas
    /\ allSchemas["A"] = ObjectSchema(<< <<"x", ExternalRef("B")>> >>)
    /\ result.schemas = << <<"A", << <<"x", <<"B">> >> >> >> >>

====
